---- MODULE Spec2Model ----
(***************************************************************************)
(* Model of the ApplyWise chat backend (py-api): the chat orchestrator of  *)
(* routes/chat.py, the letter store and classifiers of                     *)
(* services/letter_service.py, the placeholder engine of                   *)
(* utils/placeholders.py and the text heuristics of utils/text.py.         *)
(*                                                                         *)
(* Python strings are TLA+ strings: TLC evaluates Len, SubSeq and \o on    *)
(* them, so substring tests, splitting and replacement are computed on the *)
(* characters, as the code does.  Python's None is "" for a thread id or a *)
(* letter id (the code only tests their truthiness) and NoLetter, NoUpload *)
(* and NoJob for an absent record.                                         *)
(***************************************************************************)
EXTENDS Integers, Sequences, FiniteSets, TLC

VARIABLES
    mongo,            \* ENABLE_MONGODB, fixed when the process starts
    now,              \* the clock read by now_millis()
    uploaded_files,   \* storage.uploaded_files, in insertion order
    upload_store,     \* the persistent uploads collection (upload_service)
    cover_letters,    \* storage.cover_letters, in insertion order
    job_descriptions, \* storage.job_descriptions, keyed by _thread_key
    chat_history,     \* the chat_history collection, in insertion order
    thread_metadata,  \* the thread_metadata collection, keyed by its filter
    pending_codes,    \* storage.pending_codes, keyed by code
    sessions,         \* storage.sessions, keyed by token
    verification_codes, \* the verification_codes collection, keyed by code
    session_store,    \* the persistent sessions collection, keyed by token
    tokens_issued,    \* how many generate_token() results were handed out
    requests,         \* how many requests were served
    turn,             \* what the last request was and what it saw
    response,         \* the last HTTP response
    in_flight         \* the chat turns that are inside save_cover_letter, and where

\* the stores of the chat: uploads, drafts, job descriptions, history
chat_vars == <<uploaded_files, upload_store, cover_letters, job_descriptions,
               chat_history, thread_metadata>>

\* the stores of codes and sessions
auth_vars == <<pending_codes, sessions, verification_codes, session_store>>

vars == <<mongo, now, uploaded_files, upload_store, cover_letters,
          job_descriptions, chat_history, thread_metadata, pending_codes, sessions,
          verification_codes, session_store, tokens_issued, requests, turn, response,
          in_flight>>

-----------------------------------------------------------------------------
(* Strings *)

Char(s, i) == SubSeq(s, i, i)

\* s[a-1:b]: a slice stops at the end of the string
Slice(s, a, b) ==
    IF a > Len(s) \/ b < a THEN ""
    ELSE SubSeq(s, a, IF b < Len(s) THEN b ELSE Len(s))

UpperChars == "ABCDEFGHIJKLMNOPQRSTUVWXYZ"
LowerChars == "abcdefghijklmnopqrstuvwxyz"

UpperSet == {Char(UpperChars, i) : i \in 1..Len(UpperChars)}
LetterSet == UpperSet \cup {Char(LowerChars, i) : i \in 1..Len(LowerChars)}
ToLower ==
    [c \in UpperSet |->
        Char(LowerChars, CHOOSE i \in 1..Len(UpperChars) : Char(UpperChars, i) = c)]

IsLetter(c) == c \in LetterSet
IsSpace(c) == c \in {" ", "\n", "\t"}

LowerChar(c) == IF c \in UpperSet THEN ToLower[c] ELSE c

\* "".join(piece[a..b])
RECURSIVE concat(_, _, _)
concat(piece, a, b) ==
    IF a > b THEN ""
    ELSE IF a = b THEN piece[a]
    ELSE LET mid == (a + b) \div 2
         IN  concat(piece, a, mid) \o concat(piece, mid + 1, b)

\* str.lower()
lower(s) == concat([i \in 1..Len(s) |-> LowerChar(Char(s, i))], 1, Len(s))

\* str.upper()
UpperChar(c) ==
    IF \E i \in 1..Len(LowerChars) : Char(LowerChars, i) = c
    THEN Char(UpperChars, CHOOSE i \in 1..Len(LowerChars) : Char(LowerChars, i) = c)
    ELSE c

upper(s) == concat([i \in 1..Len(s) |-> UpperChar(Char(s, i))], 1, Len(s))

\* p in s
Contains(s, p) ==
    \E i \in 1..(Len(s) - Len(p) + 1) : SubSeq(s, i, i + Len(p) - 1) = p

\* s.startswith(p)
StartsWith(s, p) == Len(p) <= Len(s) /\ SubSeq(s, 1, Len(p)) = p

\* any(p in s for p in patterns)
ContainsAny(s, patterns) == \E p \in patterns : Contains(s, p)

\* the first index from i on, and the last index down from i, whose character
\* is not in chars
RECURSIVE SkipRight(_, _, _)
SkipRight(s, i, chars) ==
    IF i > Len(s) \/ Char(s, i) \notin chars THEN i ELSE SkipRight(s, i + 1, chars)

RECURSIVE SkipLeft(_, _, _)
SkipLeft(s, i, chars) ==
    IF i < 1 \/ Char(s, i) \notin chars THEN i ELSE SkipLeft(s, i - 1, chars)

\* s.strip(chars)
StripChars(s, chars) ==
    LET a == SkipRight(s, 1, chars)
        b == SkipLeft(s, Len(s), chars)
    IN  IF a > b THEN "" ELSE SubSeq(s, a, b)

\* s.strip() and s.lstrip()
strip(s) == StripChars(s, {" ", "\n", "\t"})
lstrip(s) ==
    LET a == SkipRight(s, 1, {" ", "\n", "\t"})
    IN  IF a > Len(s) THEN "" ELSE SubSeq(s, a, Len(s))

\* " ".join(s.split())
collapse(s) ==
    concat([i \in 1..Len(s) |->
               IF ~IsSpace(Char(s, i)) THEN Char(s, i)
               ELSE IF /\ i > 1
                       /\ ~IsSpace(Char(s, i - 1))
                       /\ \E j \in (i + 1)..Len(s) : ~IsSpace(Char(s, j))
                    THEN " "
                    ELSE ""],
           1, Len(s))

\* the index of the first occurrence of p in s, 0 when there is none
Find(s, p) ==
    LET hits == {i \in 1..(Len(s) - Len(p) + 1) : SubSeq(s, i, i + Len(p) - 1) = p}
    IN  IF hits = {} \/ Len(p) = 0 THEN 0
        ELSE CHOOSE i \in hits : \A j \in hits : i <= j

\* s.replace(old, new), and the case-insensitive re.subn of a literal: the
\* occurrences are found in `probe` (s itself, or s lowered) from left to right
RECURSIVE ReplaceIn(_, _, _, _)
ReplaceIn(s, probe, old, new) ==
    LET at == Find(probe, old)
    IN  IF at = 0 THEN s
        ELSE SubSeq(s, 1, at - 1) \o new
             \o ReplaceIn(SubSeq(s, at + Len(old), Len(s)),
                          SubSeq(probe, at + Len(old), Len(probe)), old, new)

Replace(s, old, new) == ReplaceIn(s, s, old, new)

\* sep.join(seq)
RECURSIVE Join(_, _)
Join(seq, sep) ==
    IF Len(seq) = 0 THEN ""
    ELSE IF Len(seq) = 1 THEN seq[1]
    ELSE seq[1] \o sep \o Join(Tail(seq), sep)

\* Python orders strings by code point; the characters the model uses, in
\* that order
CodePoints ==
    "\t\n !#$%&',-./0123456789:;<=>?@ABCDEFGHIJKLMNOPQRSTUVWXYZ[]^_abcdefghijklmnopqrstuvwxyz{|}~"

Ord(c) == CHOOSE i \in 1..Len(CodePoints) : Char(CodePoints, i) = c

\* a < b for Python strings
StrLess(a, b) ==
    \E i \in 1..(Len(b)) :
        /\ \A j \in 1..(i - 1) : j <= Len(a) /\ Char(a, j) = Char(b, j)
        /\ \/ i = Len(a) + 1
           \/ i <= Len(a) /\ Ord(Char(a, i)) < Ord(Char(b, i))

\* sorted(set(seq))
RECURSIVE SortedSet(_)
SortedSet(S) ==
    IF S = {} THEN <<>>
    ELSE LET least == CHOOSE a \in S : \A b \in S \ {a} : StrLess(a, b)
         IN  <<least>> \o SortedSet(S \ {least})

Min(S) == CHOOSE i \in S : \A j \in S : i <= j
Max(S) == 0 - Min({0 - i : i \in S})

\* the members of a set of integers, ascending
RECURSIVE Ascending(_)
Ascending(S) == IF S = {} THEN <<>> ELSE <<Min(S)>> \o Ascending(S \ {Min(S)})

\* re.split(r"[;\n]", s) and s.splitlines(): the pieces between separators
RECURSIVE Split(_, _)
Split(s, seps) ==
    LET cuts == {i \in 1..Len(s) : Char(s, i) \in seps}
    IN  IF cuts = {} THEN <<s>>
        ELSE <<SubSeq(s, 1, Min(cuts) - 1)>>
             \o Split(SubSeq(s, Min(cuts) + 1, Len(s)), seps)

-----------------------------------------------------------------------------
(* utils/placeholders.py *)

\* datetime.now().strftime("%B %d, %Y"): the runs modelled stay within one day
date_line == "November 06, 2026"

ALLOWED_PLACEHOLDERS == {"[date]"}

\* ensure_cover_letter_date with a pattern that is not case-insensitive
ensure_cover_letter_date_exact(text) ==
    IF Contains(text, "[date]") THEN Replace(text, "[date]", date_line)
    ELSE IF strip(text) = "" THEN date_line
    ELSE text

\* ensure_cover_letter_date: LETTER_DATE_PLACEHOLDER_PATTERN.subn, else the
\* date alone for blank text, else the text
ensure_cover_letter_date(text) ==
    IF Contains(lower(text), "[date]")
    THEN ReplaceIn(text, lower(text), "[date]", date_line)
    ELSE IF strip(text) = "" THEN date_line
    ELSE text

\* PLACEHOLDER_TOKEN_PATTERN.findall(text): the spans "[" ... "]" with at
\* least one character and no bracket inside, left to right
RECURSIVE PlaceholderTokensFrom(_, _)
PlaceholderTokensFrom(text, from) ==
    LET opens == {p \in from..Len(text) : Char(text, p) = "["}
    IN  IF opens = {} THEN <<>>
        ELSE LET p == Min(opens)
                 brackets == {q \in (p + 1)..Len(text) : Char(text, q) \in {"[", "]"}}
             IN  IF brackets = {} THEN <<>>
                 ELSE IF Char(text, Min(brackets)) = "]" /\ Min(brackets) > p + 1
                      THEN <<SubSeq(text, p, Min(brackets))>>
                           \o PlaceholderTokensFrom(text, Min(brackets) + 1)
                      ELSE PlaceholderTokensFrom(text, p + 1)

PLACEHOLDER_TOKEN_PATTERN(text) == PlaceholderTokensFrom(text, 1)

find_unknown_placeholders(text) ==
    LET found == PLACEHOLDER_TOKEN_PATTERN(text)
        unknown == {StripChars(found[i], {"[", "]", " "}) :
                       i \in {j \in 1..Len(found) :
                                 lower(found[j]) \notin ALLOWED_PLACEHOLDERS}}
    IN  SortedSet(unknown \ {""})

\* The dict of collect_unknown_placeholder_tokens: its keys in insertion
\* order, and the literal tokens of each key in order of occurrence
NormalizedKey(token) == lower(strip(StripChars(token, {"[", "]", " "})))

collect_unknown_placeholder_tokens(text) ==
    LET found == SelectSeq(PLACEHOLDER_TOKEN_PATTERN(text),
                           LAMBDA t : /\ lower(t) \notin ALLOWED_PLACEHOLDERS
                                      /\ NormalizedKey(t) # "")
        firsts == {i \in 1..Len(found) :
                      \A j \in 1..(i - 1) : NormalizedKey(found[j]) # NormalizedKey(found[i])}
        order == Ascending(firsts)
    IN  [keys |-> [i \in 1..Len(order) |-> NormalizedKey(found[order[i]])],
         tokens |-> [k \in {NormalizedKey(found[i]) : i \in 1..Len(found)} |->
                        SelectSeq(found, LAMBDA t : NormalizedKey(t) = k)]]

\* None is ""
match_placeholder_key(candidate, choices) ==
    LET candidate_lower == lower(strip(candidate))
        exact == {i \in 1..Len(choices) : candidate_lower = choices[i]}
        inside == {i \in 1..Len(choices) : Contains(choices[i], candidate_lower)}
        around == {i \in 1..Len(choices) : Contains(candidate_lower, choices[i])}
    IN  IF candidate_lower = "" THEN ""
        ELSE IF exact # {} THEN choices[Min(exact)]
        ELSE IF inside # {} THEN choices[Min(inside)]
        ELSE IF around # {} THEN choices[Min(around)]
        ELSE ""

NoMatch == [matched |-> FALSE, key |-> "", value |-> ""]

\* the length of the longest prefix of s from index a matched by
\* [A-Za-z][A-Za-z\s]*
KeyRun(s, a) ==
    IF a > Len(s) \/ ~IsLetter(Char(s, a)) THEN 0
    ELSE Max({n \in 1..(Len(s) - a + 1) :
                 \A i \in a..(a + n - 1) : IsLetter(Char(s, i)) \/ IsSpace(Char(s, i))})

\* re.match(r"(?i)^(?P<key>[A-Za-z][A-Za-z\s]{0,50})\s*[:=-]\s*(?P<value>.+)$", line)
\* on a stripped line without newline: the key is the whole run of letters
\* and blanks before the separator (at most 51 characters, the rest blanks)
KeyValueMatch(line) ==
    LET run == KeyRun(line, 1)
        taken == IF run < 51 THEN run ELSE 51
    IN  IF /\ run >= 1
           /\ run + 1 < Len(line)
           /\ Char(line, run + 1) \in {":", "=", "-"}
           /\ \A i \in (taken + 1)..run : IsSpace(Char(line, i))
        THEN [matched |-> TRUE,
              key |-> SubSeq(line, 1, taken),
              value |-> lstrip(SubSeq(line, run + 2, Len(line)))]
        ELSE NoMatch

\* re.match(r"(?i)^(?:please\s+)?(?:set|update|change|use|replace)\s+
\*   (?P<key>[A-Za-z][A-Za-z\s]{0,50})\s+(?:to|as|=|is)\s*(?P<value>.+)$", line),
\* in pieces.  The connective of (?:to|as|=|is) that stands at index w, "" when
\* there is none
ConnectiveAt(low, w) ==
    IF Slice(low, w, w) = "=" THEN "="
    ELSE IF Slice(low, w, w + 1) \in {"to", "as", "is"} THEN Slice(low, w, w + 1)
    ELSE ""

\* the verb of (?:set|update|change|use|replace) that stands at index at
SetVerbAt(low, at) ==
    LET verbs == {v \in {"set", "update", "change", "use", "replace"} :
                     Slice(low, at, at + Len(v) - 1) = v}
    IN  IF verbs = {} THEN "" ELSE CHOOSE v \in verbs : TRUE

\* where a connective can stand for a key that starts at a and whose letters
\* and blanks run for `run` characters: blanks before it, the key no longer
\* than 51 characters, and a value after it
SetKeyPlaces(low, a, run) ==
    {w \in (a + 2)..Len(low) :
        /\ w - 2 <= a + run - 1
        /\ IsSpace(Char(low, w - 1))
        /\ \A i \in (a + 51)..(w - 1) : IsSpace(Char(low, i))
        /\ ConnectiveAt(low, w) # ""
        /\ w + Len(ConnectiveAt(low, w)) <= Len(low)}

SetKeyTaken(line, low, a, w) ==
    [matched |-> TRUE,
     key |-> SubSeq(line, a, IF w - 2 < a + 50 THEN w - 2 ELSE a + 50),
     value |-> lstrip(SubSeq(line, w + Len(ConnectiveAt(low, w)), Len(line)))]

\* the greedy key ends before the last connective the rest can still match
SetKeyFrom(line, low, a) ==
    LET places == SetKeyPlaces(low, a, KeyRun(low, a))
    IN  IF places = {} THEN NoMatch ELSE SetKeyTaken(line, low, a, Max(places))

SetKeyAfterVerb(line, low, verb_end) ==
    LET a == SkipRight(low, verb_end, {" ", "\n", "\t"})
    IN  IF a = verb_end THEN NoMatch ELSE SetKeyFrom(line, low, a)

SetKeyVerb(line, low, verb_at) ==
    LET verb == SetVerbAt(low, verb_at)
    IN  IF verb = "" THEN NoMatch ELSE SetKeyAfterVerb(line, low, verb_at + Len(verb))

SetKeyLowered(line, low) ==
    LET after_please == SkipRight(low, 7, {" ", "\n", "\t"})
    IN  SetKeyVerb(line, low,
                   IF StartsWith(low, "please") /\ after_please > 7 THEN after_please
                   ELSE 1)

SetKeyMatch(line) == SetKeyLowered(line, lower(line))

\* updates[key] = value on a dict kept as a sequence of <<key, value>>
DictSet(updates, key, value) ==
    IF \E i \in 1..Len(updates) : updates[i][1] = key
    THEN [i \in 1..Len(updates) |->
             IF updates[i][1] = key THEN <<key, value>> ELSE updates[i]]
    ELSE Append(updates, <<key, value>>)

\* placeholders.py 94-101: the first of the two patterns that matches the line
LineMatch(line) ==
    LET first == KeyValueMatch(line)
    IN  IF first.matched THEN first ELSE SetKeyMatch(line)

\* placeholders.py 102-108: what a matched line adds to updates
LineUpdate(match, available_keys, updates) ==
    LET value == strip(match.value)
        matched == match_placeholder_key(strip(match.key), available_keys)
    IN  IF ~match.matched \/ value = "" \/ matched = "" THEN updates
        ELSE DictSet(updates, matched, value)

\* the body of the loop over the segments, for one stripped segment
ParseSegment(line, available_keys, updates) ==
    IF line = "" THEN updates ELSE LineUpdate(LineMatch(line), available_keys, updates)

RECURSIVE ParseSegments(_, _, _)
ParseSegments(segments, available_keys, updates) ==
    IF segments = <<>> THEN updates
    ELSE ParseSegments(Tail(segments), available_keys,
                       ParseSegment(strip(Head(segments)), available_keys, updates))

ParseStripped(stripped, available_keys, allow_fallback, updates) ==
    IF updates # <<>> THEN updates
    ELSE IF allow_fallback /\ Len(available_keys) = 1
         THEN <<<<available_keys[1], stripped>>>>
    ELSE <<>>

parse_placeholder_updates(message, available_keys, allow_fallback) ==
    IF strip(message) = "" \/ available_keys = <<>> THEN <<>>
    ELSE ParseStripped(strip(message), available_keys, allow_fallback,
                       ParseSegments(Split(strip(message), {";", "\n"}),
                                     available_keys, <<>>))

\* the loop body of apply_placeholder_updates that stops after the first token
ReplaceFirstToken(state, tokens, value) ==
    IF tokens # <<>> /\ Contains(state.text, Head(tokens))
    THEN [text |-> Replace(state.text, Head(tokens), value), replaced |-> TRUE]
    ELSE state

\* the loop body of apply_placeholder_updates for one key: every token of the
\* key that still occurs is replaced, in order
RECURSIVE ReplaceTokens(_, _, _)
ReplaceTokens(state, tokens, value) ==
    IF tokens = <<>> THEN state
    ELSE ReplaceTokens(
             IF Contains(state.text, Head(tokens))
             THEN [text |-> Replace(state.text, Head(tokens), value), replaced |-> TRUE]
             ELSE state,
             Tail(tokens), value)

RECURSIVE ApplyUpdates(_, _, _)
ApplyUpdates(state, updates, placeholders) ==
    IF updates = <<>> THEN state
    ELSE ApplyUpdates(
             IF Head(updates)[1] \in DOMAIN placeholders.tokens
             THEN ReplaceTokens(state, placeholders.tokens[Head(updates)[1]],
                                strip(Head(updates)[2]))
             ELSE state,
             Tail(updates), placeholders)

\* returns [text, replaced]
apply_placeholder_updates(text, updates, placeholders) ==
    ApplyUpdates([text |-> text, replaced |-> FALSE], updates, placeholders)

-----------------------------------------------------------------------------
(* utils/text.py *)

\* make_text_excerpt(text, limit)
make_text_excerpt(text, limit) ==
    IF text = "" THEN "" ELSE Slice(collapse(text), 1, limit)

job_signals ==
    {"job description", "responsibilities", "requirements", "qualifications",
     "what you will do", "what you'll do", "about the role", "about you",
     "preferred skills"}

looks_like_job_description(text) ==
    LET lowered == lower(text)
        signal_count == Cardinality({term \in job_signals : Contains(lowered, term)})
        long_enough == Len(lowered) > 250
    IN  signal_count >= 2 /\ long_enough

-----------------------------------------------------------------------------
(* services/letter_service.py: classifiers and reply texts *)

LETTER_READY_FOLLOW_UP ==
    "\n\nWhen you're satisfied, ask me to generate your PDF. Otherwise, let me know what you'd like to revise."

ADJUSTMENT_KEYWORDS ==
    {"adjust", "tweak", "change", "revise", "rewrite", "shorter", "longer",
     "tone", "friendlier", "formal", "casual", "add", "include", "remove",
     "emphasize", "highlight", "focus on", "soften", "strengthen", "update",
     "polish", "human"}

JOB_DESCRIPTION_MAX_LENGTH == 5000
DEFAULT_THREAD_ID == "default"

appears_to_be_cover_letter_of_any_length(text) ==
    /\ ContainsAny(lower(text), {"dear ", "to whom it may concern", "hiring manager"})
    /\ ContainsAny(lower(text), {"sincerely", "regards", "respectfully", "best wishes"})

appears_to_be_cover_letter(text) ==
    LET text_lower == lower(text)
        has_salutation ==
            ContainsAny(text_lower, {"dear ", "to whom it may concern", "hiring manager"})
        has_closing ==
            ContainsAny(text_lower, {"sincerely", "regards", "respectfully", "best wishes"})
    IN  IF text = "" \/ Len(text) < 200 THEN FALSE
        ELSE has_salutation /\ has_closing

normalize_thread_id(thread_id) ==
    IF strip(thread_id) = "" THEN DEFAULT_THREAD_ID ELSE strip(thread_id)

thread_key(profile_id, thread_id) ==
    profile_id \o "::" \o normalize_thread_id(thread_id)

letter_follow_up_text(missing_fields) ==
    IF missing_fields # <<>>
    THEN "\n\nI still need the following details before the PDF is ready: "
         \o Join(missing_fields, ", ") \o "."
    ELSE LETTER_READY_FOLLOW_UP

\* the first line of the text, blank or not
first_line(text) ==
    strip(Split(text, {"\n"})[1])

\* None is ""
first_nonempty_line(text) ==
    LET lines == Split(text, {"\n"})
        full == {i \in 1..Len(lines) : strip(lines[i]) # ""}
    IN  IF full = {} THEN "" ELSE strip(lines[Min(full)])

looks_like_letter_adjustment(message) ==
    LET normalized == collapse(lower(message))
    IN  IF normalized = "" THEN FALSE
        ELSE IF StartsWith(normalized, "create pdf") \/ StartsWith(normalized, "download pdf")
             THEN FALSE
        ELSE IF StartsWith(normalized, "make it ") THEN TRUE
        ELSE IF \E starter \in {"can you", "could you", "please", "update ", "change "} :
                    StartsWith(normalized, starter)
             THEN TRUE
        ELSE ContainsAny(normalized, ADJUSTMENT_KEYWORDS)

should_draft_cover_letter(message, attachments, has_request_intent, requests_cover_letter) ==
    LET normalized == collapse(lower(message))
        request_verbs == {"write", "draft", "create", "craft", "prepare", "generate"}
    IN  IF normalized = "" THEN FALSE
        ELSE IF ContainsAny(normalized, {"cover letter", "cover-letter", "application letter"})
             THEN TRUE
        ELSE IF ContainsAny(normalized, request_verbs) /\ Contains(normalized, "letter")
             THEN TRUE
        ELSE IF looks_like_job_description(message)
             THEN requests_cover_letter \/ has_request_intent
        ELSE IF attachments # <<>> /\ ContainsAny(normalized, request_verbs) THEN TRUE
        ELSE FALSE

build_fallback_reply(should_draft, has_attachments, has_job_description) ==
    IF should_draft
    THEN Join(<<"Working on your cover letter request.",
                IF has_attachments
                THEN "I'll incorporate your uploaded materials while drafting the letter."
                ELSE "Upload your resume to help me personalize the cover letter.">>, "\n")
    ELSE Join(<<"Hi! I'm ApplyWise, your cover letter co-pilot.",
                "Share a job description when you're ready and I'll draft a tailored cover letter for you.",
                IF ~has_attachments
                THEN "You can upload your resume for more personalization."
                ELSE "I have your materials; send the job details or ask for tips when you're ready.">>
              \o (IF has_job_description
                  THEN <<"I've saved the role details you shared; just tell me when to start drafting.">>
                  ELSE <<>>), "\n")

pdf_patterns ==
    {"create pdf", "make pdf", "generate pdf", "build pdf", "draft pdf", "write pdf",
     "produce pdf", "create a pdf", "make a pdf", "generate a pdf", "build a pdf",
     "draft a pdf", "write a pdf", "print to pdf", "export to pdf", "save as pdf",
     "save to pdf", "download pdf", "download as pdf", "convert to pdf",
     "turn into pdf", "change to pdf", "pdf version", "pdf format", "pdf file",
     "pdf copy", "pdf document", "pdf", "pdf this", "pdf it", "pdf please",
     "pdf now", "pdf that", "can you pdf", "could you pdf", "will you pdf",
     "would you pdf", "please pdf", "create file", "make file", "generate file",
     "download file", "export file", "save file", "create a file", "make a file",
     "generate a file", "download a file", "export a file", "save a file",
     "as pdf", "to pdf", "in pdf", "into pdf"}

\* "cover_letter", "resume", or "" for None
detect_pdf_request(message) ==
    LET normalized == collapse(lower(message))
    IN  IF normalized = "" THEN ""
        ELSE IF ~ContainsAny(normalized, pdf_patterns) THEN ""
        ELSE IF ContainsAny(normalized, {"resume", "cv", "curriculum vitae"}) THEN "resume"
        ELSE IF ContainsAny(normalized,
                    {"cover letter", "cover-letter", "coverletter", "application letter"})
             THEN "cover_letter"
        ELSE "cover_letter"

review_patterns ==
    {"review", "critique", "feedback", "look at", "check", "evaluate", "assess",
     "analyze", "improve", "suggestions", "advice", "help with", "tips", "enhance",
     "optimize", "fix", "better", "stronger", "thoughts on", "opinion on",
     "what do you think"}

specific_phrases ==
    {"review my resume", "review the resume", "look at my resume", "check my resume",
     "feedback on my resume", "thoughts on my resume", "help with my resume",
     "improve my resume", "make my resume better", "resume feedback", "resume review",
     "resume advice", "resume tips", "resume suggestions",
     "what do you think of my resume", "can you review", "could you review",
     "please review"}

detect_resume_review_request(message) ==
    LET normalized == collapse(lower(message))
        has_resume_term == ContainsAny(normalized, {"resume", "cv", "curriculum vitae"})
        has_review_action == ContainsAny(normalized, review_patterns)
        has_specific_phrase == ContainsAny(normalized, specific_phrases)
    IN  IF normalized = "" THEN FALSE
        ELSE (has_resume_term /\ has_review_action) \/ has_specific_phrase

-----------------------------------------------------------------------------
(* utils/auth.py, services/upload_service.py, services/letter_service.py:   *)
(* the stores.  Each operator takes the store it reads and returns the      *)
(* store it leaves.                                                         *)

\* generate_token(prefix): a token no earlier call returned; `issued` counts
\* the tokens handed out so far
generate_token(prefix, issued) == prefix \o "_" \o ToString(issued + 1)

NoUpload ==
    [id |-> "", profile_id |-> "", name |-> "", mime_type |-> "",
     uploaded_at |-> 0, text |-> ""]

NoLetter ==
    [id |-> "", profile_id |-> "", text |-> "", thread_id |-> "",
     created_at |-> 0, updated_at |-> 0, header_date |-> ""]

NoJob ==
    [profile_id |-> "", thread_id |-> "", text |-> "", excerpt |-> "", stored_at |-> 0]

\* Python compares key tuples item by item
TupleLess(a, b) ==
    \E i \in 1..Len(a) : a[i] < b[i] /\ \A j \in 1..(i - 1) : a[j] = b[j]

\* max(matches, key=...): Python returns the first of the maximal elements
FirstMax(matches, key) ==
    matches[Min({i \in 1..Len(matches) :
                    \A j \in 1..Len(matches) : ~TupleLess(key[i], key[j])})]

\* upload_service.get_uploads_for_profile: newest first
get_uploads_for_profile(store, profile_id) ==
    LET mine == SelectSeq(store, LAMBDA u : u.profile_id = profile_id)
        rank(i) == Cardinality({j \in 1..Len(mine) :
                       \/ mine[j].uploaded_at > mine[i].uploaded_at
                       \/ mine[j].uploaded_at = mine[i].uploaded_at /\ j < i})
    IN  [k \in 1..Len(mine) |-> mine[CHOOSE i \in 1..Len(mine) : rank(i) = k - 1]]

\* chat.py 161-175: the uploads the process does not hold yet are loaded
\* upload_service.save_upload: update_one(..., upsert=True) on the pair
\* (profile_id, file_id)
save_upload(store, record) ==
    IF \E i \in 1..Len(store) :
           store[i].profile_id = record.profile_id /\ store[i].id = record.id
    THEN [i \in 1..Len(store) |->
             IF store[i].profile_id = record.profile_id /\ store[i].id = record.id
             THEN record ELSE store[i]]
    ELSE Append(store, record)

get_upload_by_any_profile(store, profile_id, file_id) ==
    IF \E i \in 1..Len(store) : store[i].id = file_id
    THEN store[CHOOSE i \in 1..Len(store) : store[i].id = file_id]
    ELSE NoUpload

\* upload_service.get_upload_by_id: find_one on (profile_id, file_id)
get_upload_by_id(store, profile_id, file_id) ==
    LET found == SelectSeq(store, LAMBDA u : u.profile_id = profile_id /\ u.id = file_id)
    IN  IF found = <<>> THEN NoUpload ELSE found[1]

\* upload_service.delete_upload: delete_one on (profile_id, file_id)
delete_upload(store, profile_id, file_id) ==
    LET hits == {i \in 1..Len(store) :
                    store[i].profile_id = profile_id /\ store[i].id = file_id}
    IN  IF hits = {} THEN store
        ELSE LET first == CHOOSE i \in hits : \A j \in hits : i <= j
             IN  SubSeq(store, 1, first - 1) \o SubSeq(store, first + 1, Len(store))

\* uploaded_files.get(file_id)
FileById(files, file_id) ==
    IF \E i \in 1..Len(files) : files[i].id = file_id
    THEN files[CHOOSE i \in 1..Len(files) : files[i].id = file_id]
    ELSE NoUpload

\* uploaded_files[file_id] = record
SetFile(files, record) ==
    IF \E i \in 1..Len(files) : files[i].id = record.id
    THEN [i \in 1..Len(files) |-> IF files[i].id = record.id THEN record ELSE files[i]]
    ELSE Append(files, record)

\* uploaded_files.pop(file_id, None)
PopFile(files, file_id) == SelectSeq(files, LAMBDA record : record.id # file_id)

SyncUploads(files, store, profile_id) ==
    files \o SelectSeq(get_uploads_for_profile(store, profile_id),
                       LAMBDA u : \A i \in 1..Len(files) : files[i].id # u.id)

\* select_resume_upload that takes the latest upload of the profile
select_latest_upload(files, profile_id) ==
    LET matches == SelectSeq(files, LAMBDA record : record.profile_id = profile_id)
        key == [i \in 1..Len(matches) |-> <<matches[i].uploaded_at>>]
    IN  IF matches = <<>> THEN NoUpload ELSE FirstMax(matches, key)

\* letter_service.select_resume_upload
select_resume_upload(files, profile_id) ==
    LET matches == SelectSeq(files, LAMBDA record : record.profile_id = profile_id)
        priority(record) ==
            IF Contains(lower(record.name), "resume") \/ Contains(lower(record.name), "cv")
            THEN 2
            ELSE IF lower(record.mime_type) = "application/pdf" THEN 1
            ELSE 0
        key == [i \in 1..Len(matches) |->
                   <<priority(matches[i]), matches[i].uploaded_at>>]
    IN  IF matches = <<>> THEN NoUpload ELSE FirstMax(matches, key)

\* cover_letters.get(letter_id)
LetterById(letters, letter_id) ==
    IF \E i \in 1..Len(letters) : letters[i].id = letter_id
    THEN letters[CHOOSE i \in 1..Len(letters) : letters[i].id = letter_id]
    ELSE NoLetter

\* returns the store, the id and the formatted text
save_cover_letter(letters, issued, clock, profile_id, thread_id, text, letter_id) ==
    LET formatted == ensure_cover_letter_date(text)
        header_line == first_nonempty_line(formatted)
        timestamp == clock
        normalized_thread == normalize_thread_id(thread_id)
        fresh == generate_token("letter", issued)
    IN  IF letter_id # "" /\ LetterById(letters, letter_id) # NoLetter
        THEN [letters |-> [i \in 1..Len(letters) |->
                              IF letters[i].id = letter_id
                              THEN [letters[i] EXCEPT !.text = formatted,
                                                      !.updated_at = timestamp,
                                                      !.thread_id = normalized_thread,
                                                      !.header_date = header_line]
                              ELSE letters[i]],
              issued |-> issued,
              letter_id |-> letter_id,
              formatted |-> formatted]
        ELSE [letters |-> Append(letters,
                              [id |-> fresh, profile_id |-> profile_id,
                               text |-> formatted, thread_id |-> normalized_thread,
                               created_at |-> timestamp, updated_at |-> timestamp,
                               header_date |-> header_line]),
              issued |-> issued + 1,
              letter_id |-> fresh,
              formatted |-> formatted]

store_cover_letter(letters, issued, clock, profile_id, thread_id, text) ==
    save_cover_letter(letters, issued, clock, profile_id, thread_id, text, "")

store_job_description(jobs, clock, profile_id, thread_id, text) ==
    LET cleaned == collapse(text)
        limited == Slice(cleaned, 1, JOB_DESCRIPTION_MAX_LENGTH)
        excerpt == make_text_excerpt(limited, 600)
        record == [profile_id |-> profile_id,
                   thread_id |-> normalize_thread_id(thread_id),
                   text |-> limited, excerpt |-> excerpt, stored_at |-> clock]
        key == thread_key(profile_id, thread_id)
    IN  IF cleaned = "" THEN jobs
        ELSE [k \in DOMAIN jobs \cup {key} |-> IF k = key THEN record ELSE jobs[k]]

latest_job_description_for_thread(jobs, profile_id, thread_id) ==
    IF thread_key(profile_id, thread_id) \in DOMAIN jobs
    THEN jobs[thread_key(profile_id, thread_id)]
    ELSE NoJob

latest_cover_letter_for_thread(letters, profile_id, thread_id) ==
    LET normalized_thread == normalize_thread_id(thread_id)
        matches == SelectSeq(letters,
                       LAMBDA record :
                           /\ record.profile_id = profile_id
                           /\ normalize_thread_id(record.thread_id) = normalized_thread)
        key == [i \in 1..Len(matches) |-> <<matches[i].created_at>>]
    IN  IF matches = <<>> THEN NoLetter ELSE FirstMax(matches, key)

-----------------------------------------------------------------------------
(* services/chat_history_service.py *)

\* A dict, or a collection with a unique key, is a function from the key to
\* the record

\* d[k] = v
Put(d, k, v) == [x \in DOMAIN d \cup {k} |-> IF x = k THEN v ELSE d[x]]

\* d.pop(k, None) for every k of keys
Drop(d, keys) == [x \in DOMAIN d \ keys |-> d[x]]

\* save_message: the thread id is normalized, the document appended
save_message(history, clock, access_code, profile_id, thread_id, role, content, metadata) ==
    Append(history,
           [access_code |-> access_code, profile_id |-> profile_id,
            thread_id |-> IF strip(thread_id) = "" THEN "default" ELSE strip(thread_id),
            role |-> role, content |-> content, metadata |-> metadata,
            timestamp |-> clock])

\* update_thread_metadata that writes the title also when none is given
update_thread_metadata_retitling(metadata, clock, access_code, profile_id, thread_id, title) ==
    [k \in DOMAIN metadata
           \cup {<<access_code, profile_id,
                   IF strip(thread_id) = "" THEN "default" ELSE strip(thread_id)>>} |->
        IF k = <<access_code, profile_id,
                 IF strip(thread_id) = "" THEN "default" ELSE strip(thread_id)>>
        THEN [access_code |-> access_code, profile_id |-> profile_id,
              thread_id |-> k[3], title |-> title,
              created_at |-> IF k \in DOMAIN metadata THEN metadata[k].created_at
                             ELSE clock,
              updated_at |-> clock]
        ELSE metadata[k]]

\* update_thread_metadata: an upsert on (access_code, profile_id, thread_id)
\* that always sets updated_at, sets the title when one is given, and sets
\* the key fields and created_at on insert.  A title that is not given (None)
\* is "" here, which the readers of the title treat alike
update_thread_metadata(metadata, clock, access_code, profile_id, thread_id, title) ==
    LET normalized_thread == IF strip(thread_id) = "" THEN "default" ELSE strip(thread_id)
        key == <<access_code, profile_id, normalized_thread>>
    IN  IF key \in DOMAIN metadata
        THEN [metadata EXCEPT ![key].updated_at = clock,
                              ![key].title = IF title # "" THEN title ELSE @]
        ELSE [k \in DOMAIN metadata \cup {key} |->
                 IF k = key
                 THEN [access_code |-> access_code, profile_id |-> profile_id,
                       thread_id |-> normalized_thread, title |-> title,
                       created_at |-> clock, updated_at |-> clock]
                 ELSE metadata[k]]

\* save_message, after the insert: the thread's metadata record is touched
\* once for every message saved
RECURSIVE saved_threads(_, _)
saved_threads(metadata, messages) ==
    IF messages = <<>> THEN metadata
    ELSE saved_threads(
             update_thread_metadata(metadata, Head(messages).timestamp,
                                    Head(messages).access_code, Head(messages).profile_id,
                                    Head(messages).thread_id, ""),
             Tail(messages))

\* get_chat_history: find(query).sort("timestamp", 1).limit(limit); the
\* collection is kept in order of insertion, which is the order of timestamps
get_chat_history(history, access_code, profile_id, thread_id, limit) ==
    LET found == SelectSeq(history,
                     LAMBDA msg :
                         /\ msg.access_code = access_code
                         /\ msg.profile_id = profile_id
                         /\ thread_id # "" =>
                                msg.thread_id = (IF strip(thread_id) = "" THEN "default"
                                                 ELSE strip(thread_id)))
    IN  SubSeq(found, 1, IF Len(found) < limit THEN Len(found) ELSE limit)

\* get_chat_history, limit: the default of the parameter and of the route
DEFAULT_HISTORY_LIMIT == 100

\* the messages of one thread of a workspace, oldest first
thread_messages(history, access_code, profile_id, thread_id) ==
    SelectSeq(history,
        LAMBDA msg : /\ msg.access_code = access_code
                     /\ msg.profile_id = profile_id
                     /\ msg.thread_id = thread_id)

\* get_all_threads_for_access_code, the title of one thread: the title of its
\* metadata record, else the first 60 characters of its first user message,
\* else "Thread <id>"
thread_title(history, metadata, access_code, profile_id, thread_id) ==
    LET key == <<access_code, profile_id, thread_id>>
        custom == IF key \in DOMAIN metadata THEN metadata[key].title ELSE ""
        by_user == SelectSeq(thread_messages(history, access_code, profile_id, thread_id),
                             LAMBDA msg : msg.role = "user")
        content == IF by_user = <<>> THEN "" ELSE by_user[1].content
        preview == IF content = "" THEN ""
                   ELSE strip(Slice(content, 1, 60))
                            \o (IF Len(content) > 60 THEN "..." ELSE "")
    IN  IF custom # "" THEN custom
        ELSE IF preview # "" THEN preview
        ELSE "Thread " \o thread_id

\* get_all_threads_for_access_code, the $group stage and the formatting of
\* one group
thread_summary(history, metadata, access_code, profile_id, thread_id) ==
    LET found == thread_messages(history, access_code, profile_id, thread_id)
    IN  [thread_id |-> thread_id,
         title |-> thread_title(history, metadata, access_code, profile_id, thread_id),
         last_message_at |-> found[Len(found)].timestamp,
         message_count |-> Len(found)]

\* the $sort stage: last_message_at descending.  The order of two threads
\* whose last messages carry the same timestamp is the database's choice
RECURSIVE latest_first(_)
latest_first(summaries) ==
    IF summaries = {} THEN <<>>
    ELSE LET top == CHOOSE s \in summaries :
                        \A other \in summaries : other.last_message_at <= s.last_message_at
         IN  <<top>> \o latest_first(summaries \ {top})

get_all_threads_for_access_code(history, metadata, access_code, profile_id) ==
    LET thread_ids == {history[i].thread_id : i \in
                          {j \in 1..Len(history) :
                               /\ history[j].access_code = access_code
                               /\ history[j].profile_id = profile_id}}
    IN  latest_first({thread_summary(history, metadata, access_code, profile_id, t) :
                          t \in thread_ids})

\* delete_thread_history that forgets the thread in its two queries
delete_thread_history_of_workspace(history, metadata, access_code, profile_id, thread_id) ==
    [history |-> SelectSeq(history,
                     LAMBDA msg : ~(msg.access_code = access_code
                                    /\ msg.profile_id = profile_id)),
     metadata |-> Drop(metadata, {k \in DOMAIN metadata :
                                      k[1] = access_code /\ k[2] = profile_id}),
     deleted |-> Len(SelectSeq(history,
                     LAMBDA msg : msg.access_code = access_code
                                  /\ msg.profile_id = profile_id))]

\* delete_thread_history: the two collections as the call leaves them, and
\* deleted_count of the messages
delete_thread_history(history, metadata, access_code, profile_id, thread_id) ==
    LET normalized_thread == IF strip(thread_id) = "" THEN "default" ELSE strip(thread_id)
    IN  [history |-> SelectSeq(history,
                         LAMBDA msg : ~(/\ msg.access_code = access_code
                                        /\ msg.profile_id = profile_id
                                        /\ msg.thread_id = normalized_thread)),
         metadata |-> Drop(metadata, {<<access_code, profile_id, normalized_thread>>}),
         deleted |-> Len(thread_messages(history, access_code, profile_id,
                                         normalized_thread))]

-----------------------------------------------------------------------------
(* services/auth_service.py and utils/auth.py: codes and sessions.  A dict  *)
(* or a collection with a unique key is a function from the key to the      *)
(* record                                                                   *)

CODE_TTL_SECONDS == 5 * 60
SESSION_TTL_OF_AN_HOUR == 60 * 60
SESSION_TTL_SECONDS == 24 * 60 * 60

NoCode == [code |-> "", profile_id |-> "", expires_at |-> 0, used |-> FALSE]

NoSession ==
    [token |-> "", profile_id |-> "", access_code |-> "", issued_at |-> 0,
     expires_at |-> 0]

\* an upsert of the whole document: a code saved again is unused again
save_verification_code(codes, code, profile_id, expires_at) ==
    Put(codes, code,
        [code |-> code, profile_id |-> profile_id, expires_at |-> expires_at,
         used |-> FALSE])

\* find_one({"code": code, "used": False})
get_verification_code(codes, code) ==
    IF code \in DOMAIN codes /\ ~codes[code].used THEN codes[code] ELSE NoCode

\* mark_code_as_used that matches the code whether it is used or not
mark_code_as_used_again(codes, code) ==
    IF code \in DOMAIN codes
    THEN [codes |-> [codes EXCEPT ![code].used = TRUE], ok |-> TRUE]
    ELSE [codes |-> codes, ok |-> FALSE]

\* update_one({"code": code, "used": False}, {"$set": {"used": True}}):
\* the collection and modified_count > 0
mark_code_as_used(codes, code) ==
    IF code \in DOMAIN codes /\ ~codes[code].used
    THEN [codes |-> [codes EXCEPT ![code].used = TRUE], ok |-> TRUE]
    ELSE [codes |-> codes, ok |-> FALSE]

\* created_at is returned by get_session as issued_at
save_session(store, clock, token, profile_id, access_code, expires_at) ==
    Put(store, token,
        [token |-> token, profile_id |-> profile_id, access_code |-> access_code,
         issued_at |-> clock, expires_at |-> expires_at])

get_session(store, token) ==
    IF token \in DOMAIN store THEN store[token] ELSE NoSession

\* delete_one({"token": token}): the collection and deleted_count > 0
delete_session(store, token) ==
    [store |-> Drop(store, {token}), ok |-> token \in DOMAIN store]

\* delete_many({"expires_at": {"$lte": current_timestamp}}) on both collections
cleanup_expired_codes_and_sessions(codes, store, current_timestamp) ==
    LET expired_codes == {k \in DOMAIN codes : codes[k].expires_at <= current_timestamp}
        expired_sessions == {k \in DOMAIN store : store[k].expires_at <= current_timestamp}
    IN  [codes |-> Drop(codes, expired_codes),
         store |-> Drop(store, expired_sessions),
         codes_deleted |-> Cardinality(expired_codes),
         sessions_deleted |-> Cardinality(expired_sessions)]

\* a stored session of the profile, or a chat message of it: the workspace
\* exists.  verify_code only tests the result for truth
get_profile_by_session(store, history, code) ==
    \E token \in DOMAIN store : store[token].profile_id = code

get_profile_by_code(store, history, code) ==
    \/ \E token \in DOMAIN store : store[token].profile_id = code
    \/ \E i \in 1..Len(history) : history[i].profile_id = code

\* prune_expired that keeps an entry through the second it expires
prune_expired_late(records, current) ==
    Drop(records, {k \in DOMAIN records : records[k].expires_at < current})

\* utils/auth.prune_expired, for one of the two in-memory dicts
prune_expired(records, current) ==
    Drop(records, {k \in DOMAIN records : records[k].expires_at <= current})

\* require_session with a session that counts as live one second too long
session_expired_late(session, current) == session.expires_at < current

\* utils/auth.require_session, the test of the expiry
session_expired(session, current) == session.expires_at <= current

\* utils/auth.require_session for the Authorization header of the request:
\* the session or NoSession, the error response, and the two session stores
\* as the lookup leaves them
require_session(auth_header, mongo_on, memory, store, current) ==
    LET token == strip(Slice(auth_header, 8, Len(auth_header)))
        cached == token \in DOMAIN memory
        session == IF cached THEN memory[token]
                   ELSE IF mongo_on THEN get_session(store, token)
                   ELSE NoSession
        loaded == IF ~cached /\ mongo_on /\ session # NoSession
                  THEN Put(memory, token, session)
                  ELSE memory
    IN  IF ~StartsWith(auth_header, "Bearer ")
        THEN [session |-> NoSession, status |-> 401,
              error |-> "Missing authorization token.",
              memory |-> memory, store |-> store]
        ELSE IF session = NoSession
        THEN [session |-> NoSession, status |-> 401,
              error |-> "Invalid or expired session.",
              memory |-> loaded, store |-> store]
        ELSE IF session_expired(session, current)
        THEN [session |-> NoSession, status |-> 401, error |-> "Session expired.",
              memory |-> Drop(loaded, {token}),
              store |-> IF mongo_on THEN delete_session(store, token).store ELSE store]
        ELSE [session |-> session, status |-> 200, error |-> "",
              memory |-> loaded, store |-> store]

-----------------------------------------------------------------------------
(* The requests the model sends *)

MsgMissing == ""
MsgBlank == "  "
MsgCreatePdf == "create pdf"
MsgResumePdf == "Can you review my resume and make a pdf of it?"
MsgReview == "can you review my resume?"
MsgUpdateResume == "update my resume for this role"
MsgWriteLetter == "write me a cover letter"
MsgDraftLetter == "draft a letter for this job"
MsgCompany == "company name: Acme Corp"
MsgCityStateZip == "city, state, zip: Boston, MA 02101"
MsgShorter == "make it shorter"
MsgPlainValue == "Acme Corp"
MsgRequirementsPosting ==
    "Nurse at Mercy Clinic. Responsibilities: care for patients on the ward, record vital signs, hand over to the next shift and talk to families. Requirements: a nursing degree, two years on a hospital ward, a valid state licence and calm under pressure. The clinic is in Boston and the shift pattern is four days on, three days off."
MsgJobPosting ==
    "Senior Data Engineer at Northwind Labs.\n\nAbout the role: you will join a small group building data pipelines for hospitals.\nResponsibilities: design and run batch and streaming jobs, own data quality, and mentor junior engineers.\nQualifications: five years with SQL and Python, solid grasp of cloud storage, and clear communication with clinical partners."

Messages ==
    {MsgBlank, MsgCreatePdf, MsgResumePdf, MsgReview, MsgUpdateResume,
     MsgWriteLetter, MsgDraftLetter, MsgCompany, MsgCityStateZip, MsgShorter,
     MsgJobPosting}

\* threadId of the payload: absent, blank, or an explicit id
ThreadIds == {"", "t1"}

\* what the language model may answer
ReplyEmpty == ""
ReplyLetter ==
    "Here is your cover letter:\n\n[Date]\n[City, State, Zip]\n\nDear [Company Name] team,\nI would love to join [company name].\n\nSincerely,\nAlex Doe"
ReplyOneField ==
    "[date]\n\nDear [Company Name] team,\nI would love to join [company name].\n\nSincerely,\nAlex Doe"
ReplyFullLetter ==
    "Dear Hiring Manager,\n\nI am glad to apply for the Senior Data Engineer role at Northwind Labs. Over five years I have built batch and streaming pipelines and cared for data quality in clinical settings.\n\nSincerely,\nAlex Doe"
ReplyChat == "Happy to help. Which role are you applying for?"

Replies == {ReplyEmpty, ReplyLetter, ReplyFullLetter, ReplyChat}

\* openai_service: get_openai_client raises RuntimeError (no API key), or
\* create_response returns a completion, raises APIError, or raises something
\* else
LlmOutcomes ==
    {[outcome |-> "ok", text |-> r] : r \in Replies}
    \cup {[outcome |-> "unavailable", text |-> ""],
          [outcome |-> "api_error", text |-> ""], [outcome |-> "error", text |-> ""]}

\* the files a user uploads: name, MIME type, extracted text
UploadChoices ==
    {[name |-> "resume.pdf", mime_type |-> "application/pdf",
      text |-> "Alex Doe\nalex@example.com\nData engineer, five years."],
     [name |-> "scan.pdf", mime_type |-> "application/pdf", text |-> ""]}

\* a session as require_session returns it: the workspace code is the
\* profile id and the access code (routes/auth.py)
SessionOf(code) == [NoSession EXCEPT !.profile_id = code, !.access_code = code]

\* what the environment answers when the handler does not ask
NoLlm == [outcome |-> "none", text |-> ""]
NoRender == "none"

\* pdf_service.render_cover_letter_pdf returns the bytes or raises
RenderOutcomes == {"bytes", "raises"}

-----------------------------------------------------------------------------
(* routes/chat.py: what chat_with_model reads off the message alone *)

intent_keywords ==
    {"write", "draft", "create", "make", "generate", "prepare", "craft", "need",
     "want", "require", "update", "edit", "revise", "improve", "polish", "assist",
     "help", "put together"}

cover_letter_terms == {"cover letter", "cover-letter", "coverletter", "application letter"}
resume_terms == {"resume", "cv", "curriculum vitae"}
negative_cover_patterns ==
    {"no cover letter", "without cover letter", "don't need a cover letter",
     "do not need a cover letter"}
negative_resume_patterns ==
    {"no resume", "without resume", "don't need a resume", "do not need a resume"}

message_is_job_description(message) == looks_like_job_description(message)

\* chat.py 152, 253-256, 547, 738-781, 1036-1041 for the raw message of a
\* payload; should_draft is given for a turn without and with attachments
RequestFacts(raw) ==
    LET message == strip(raw)
        normalized_message == collapse(lower(message))
        has_request_intent ==
            \/ ContainsAny(normalized_message, intent_keywords)
            \/ Contains(normalized_message, "please")
        requests_cover_letter ==
            /\ ContainsAny(normalized_message, cover_letter_terms)
            /\ ~ContainsAny(normalized_message, negative_cover_patterns)
        requests_resume ==
            /\ ContainsAny(normalized_message, resume_terms) /\ has_request_intent
            /\ ~ContainsAny(normalized_message, negative_resume_patterns)
    IN  [message |-> message,
         pdf_request |-> detect_pdf_request(message),
         resume_review_request |-> detect_resume_review_request(message),
         is_job_description |-> message_is_job_description(message),
         has_request_intent |-> has_request_intent,
         requests_cover_letter |-> requests_cover_letter,
         requests_resume |-> requests_resume,
         looks_like_adjustment |-> looks_like_letter_adjustment(message),
         should_draft |->
             [has_attachments \in BOOLEAN |->
                 should_draft_cover_letter(
                     message, IF has_attachments THEN <<"file">> ELSE <<>>,
                     has_request_intent, requests_cover_letter)]]

\* the messages are few: each is classified once
Facts ==
    [raw \in Messages \cup {MsgMissing, MsgPlainValue, MsgRequirementsPosting} |->
        RequestFacts(raw)]

-----------------------------------------------------------------------------
(* routes/chat.py: helpers *)

prefixes_to_remove ==
    <<"here is your cover letter:", "here's your cover letter:",
      "here is the cover letter:", "here's the cover letter:",
      "here is your revised cover letter:", "here's your revised cover letter:",
      "here is the revised cover letter:", "here's the revised cover letter:",
      "i've drafted this cover letter:", "i've created this cover letter:",
      "here is a cover letter:", "here's a cover letter:",
      "below is your cover letter:", "below is the cover letter:">>

clean_cover_letter_response(text) ==
    LET text_lower == lower(text)
        hits == {i \in 1..Len(prefixes_to_remove) :
                    StartsWith(text_lower, prefixes_to_remove[i])}
    IN  IF text = "" \/ hits = {} THEN text
        ELSE lstrip(Slice(text, Len(prefixes_to_remove[Min(hits)]) + 1, Len(text)))

\* metadata is the set of its keys whose value is True
save_message_to_history(mongo_on, history, clock, session, thread_id, role, content, metadata) ==
    IF ~mongo_on \/ session.access_code = "" THEN history
    ELSE save_message(history, clock, session.access_code, session.profile_id,
                      thread_id, role, content, metadata)

\* What a branch of chat_with_model leaves: the response, the stores, and
\* whether it asked for the model client (llm_asked), called the model
\* (llm_calls) and called the PDF renderer (rendered)
Reply(c, branch, step, status, reply_text, error, cover_letter_id, downloads) ==
    [branch |-> branch, step |-> step, status |-> status, reply |-> reply_text,
     error |-> error, cover_letter_id |-> cover_letter_id, downloads |-> downloads,
     letters |-> c.letters, jobs |-> c.jobs, history |-> c.history,
     issued |-> c.issued, llm_asked |-> FALSE, llm_calls |-> 0, rendered |-> FALSE]

respond_with_assistant_message(c, branch, step, reply_text, cover_letter_id, downloads, metadata, status, error) ==
    [Reply(c, branch, step, status, reply_text, error, cover_letter_id, downloads)
        EXCEPT !.history = save_message_to_history(c.mongo, c.history, c.clock, c.session,
                               c.thread_id, "assistant", reply_text, metadata)]

\* the handler asked for the model client and called the model `calls` times
asked(out, calls) == [out EXCEPT !.llm_asked = TRUE, !.llm_calls = calls]

\* chat.py 222-242
resume_advice_mode(mongo_on, history, session, thread_id) ==
    IF mongo_on /\ thread_id # "" /\ session.access_code # ""
    THEN LET recent == get_chat_history(history, session.access_code,
                                        session.profile_id, thread_id, 5)
             assistants == {i \in 1..Len(recent) : recent[i].role = "assistant"}
         IN  /\ assistants # {}
             /\ "resume_review" \in recent[Max(assistants)].metadata
    ELSE FALSE

\* chat.py 897-912 and 1072-1088: the messages read for the prompt, each
\* formatted as "ROLE: content" with the content cut at 500 characters
conversation_history(mongo_on, history, session, thread_id) ==
    IF mongo_on /\ thread_id # "" /\ session.access_code # ""
    THEN LET history_messages == get_chat_history(history, session.access_code,
                                                  session.profile_id, thread_id, 20)
         IN  [i \in 1..Len(history_messages) |->
                 upper(history_messages[i].role) \o ": "
                     \o Slice(history_messages[i].content, 1, 500)]
    ELSE <<>>

\* chat.py 942 and 1148: conversation_history[-10:], the lines of the prompt
prompt_history(lines) ==
    SubSeq(lines, IF Len(lines) > 10 THEN Len(lines) - 9 ELSE 1, Len(lines))

\* chat.py 151-253: the request as the branches see it.  files, letters, jobs
\* and history are the stores once the uploads are synchronised and the user
\* message is saved
ChatContext(session, payload, mongo_on, clock, files, store, letters, jobs, history, issued) ==
    LET message == strip(payload.message)
        profile_id == session.profile_id
        synced == SyncUploads(files, store, profile_id)
        attachments ==
            SelectSeq(payload.fileIds,
                      LAMBDA value : \E i \in 1..Len(synced) :
                          synced[i].id = value /\ synced[i].profile_id = profile_id)
        thread_id == strip(payload.threadId)
        saved == save_message_to_history(mongo_on, history, clock, session, thread_id,
                                         "user", message, {})
        active_letter == latest_cover_letter_for_thread(letters, profile_id, thread_id)
        placeholder_tokens ==
            IF active_letter # NoLetter
            THEN collect_unknown_placeholder_tokens(active_letter.text)
            ELSE [keys |-> <<>>, tokens |-> <<>>]
    IN  [session |-> session, message |-> message, thread_id |-> thread_id,
         attachments |-> attachments, facts |-> Facts[payload.message],
         mongo |-> mongo_on, clock |-> clock, files |-> synced,
         letters |-> letters, jobs |-> jobs, history |-> saved, issued |-> issued,
         resume_record |-> select_resume_upload(synced, profile_id),
         profile_has_uploads |->
             \E i \in 1..Len(synced) : synced[i].profile_id = profile_id,
         in_resume_advice_mode |-> resume_advice_mode(mongo_on, saved, session, thread_id),
         stored_job_description |->
             latest_job_description_for_thread(jobs, profile_id, thread_id),
         active_letter |-> active_letter,
         placeholder_tokens |-> placeholder_tokens,
         available_placeholder_keys |-> placeholder_tokens.keys,
         adjustment_requested |->
             active_letter # NoLetter /\ Facts[payload.message].looks_like_adjustment]

-----------------------------------------------------------------------------
(* routes/chat.py 255-544: PDF export *)

\* the preface of chat.py 368, its apostrophe and dash in ASCII
resume_pdf_preface == "I don't create PDFs for resumes yet - only for cover letters."

review_follow_up ==
    "\n\nIf you'd like me to focus on any specific section or have questions about my feedback, just let me know!"

review_empty_text ==
    "I've reviewed your resume, but I'm having trouble generating feedback at the moment. Please try again, or feel free to ask specific questions about your resume."

\* chat.py 365-534: a resume PDF is refused and a review is given instead
resume_pdf_request(c, llm) ==
    LET resume_record == c.resume_record
        review_text == (IF strip(llm.text) = "" THEN review_empty_text ELSE strip(llm.text))
                       \o review_follow_up
        reply_text == resume_pdf_preface \o "\n\n" \o review_text
    IN  IF resume_record = NoUpload
        THEN respond_with_assistant_message(c, "pdf", "needs_resume_upload",
                 resume_pdf_preface
                 \o " Please upload your resume using the file upload panel on the right, and I'll provide detailed feedback.",
                 "", <<>>, {"resume_review_requested", "needs_resume_upload"}, 200, "")
        ELSE IF resume_record.text = ""
        THEN respond_with_assistant_message(c, "pdf", "no_text_content",
                 resume_pdf_preface \o " I found your resume file (" \o resume_record.name
                 \o "), but I'm unable to extract text from it. This might be an image-based PDF or a format I can't read. Please try uploading a text-based PDF or Word document for me to review.",
                 "", <<>>, {"resume_review_requested", "no_text_content"}, 200, "")
        ELSE IF llm.outcome = "ok"
        THEN asked([Reply(c, "pdf", "resume_review", 200, reply_text, "", "", <<>>)
                       EXCEPT !.history =
                           save_message_to_history(c.mongo, c.history, c.clock, c.session,
                               c.thread_id, "assistant", reply_text,
                               {"resume_review", "resume_pdf_request_blocked"})], 1)
        ELSE IF llm.outcome = "api_error"
        THEN asked(Reply(c, "pdf", "resume_review_api_error", 502,
                         resume_pdf_preface
                         \o " I ran into an error while trying to review your resume. Please try again shortly.",
                         "Upstream OpenAI request failed.", "", <<>>), 1)
        ELSE \* get_openai_client() is inside the try: its RuntimeError lands here
             asked(Reply(c, "pdf", "resume_review_error", 500,
                         resume_pdf_preface
                         \o " I encountered an unexpected error while reviewing your resume. Please try again.",
                         "Unexpected error during resume review.", "", <<>>),
                   IF llm.outcome = "unavailable" THEN 0 ELSE 1)

\* pdf_export without the check of chat.py 295-312: the draft is rendered
\* whatever its text holds
pdf_export_unchecked(c, llm, render) ==
    IF /\ c.in_resume_advice_mode
       /\ c.facts.pdf_request = "cover_letter"
       /\ c.active_letter = NoLetter
    THEN respond_with_assistant_message(c, "pdf", "blocked_in_resume_mode",
             "While we're working on resume feedback, I won't create PDFs. I can generate PDFs for cover letters - ask me to draft a cover letter when you're ready.",
             "", <<>>, {"pdf_request_blocked_in_resume_mode"}, 200, "")
    ELSE IF c.facts.pdf_request # "cover_letter" THEN resume_pdf_request(c, llm)
    ELSE IF c.active_letter = NoLetter
    THEN respond_with_assistant_message(c, "pdf", "needs_draft",
             "I'll create a cover letter for you first, then generate the PDF. Please share the job description and company name so I can draft it.",
             "", <<>>, {"pdf_requested", "needs_draft"}, 200, "")
    ELSE [respond_with_assistant_message(c, "pdf", "pdf_generated",
             "Here is your PDF cover letter:",
             c.active_letter.id, <<c.active_letter.id \o "-pdf">>, {"pdf_generated"},
             200, "")
             EXCEPT !.rendered = TRUE]

\* str(pdf_error) of chat.py 323: what the renderer's exception says
render_error_message == "render failed"

\* pdf_export that answers a request without a draft by storing a draft
pdf_export_drafting_first(c, llm, render) ==
    LET stored == store_cover_letter(c.letters, c.issued, c.clock, c.session.profile_id,
                                     c.thread_id, "Dear Hiring Manager,")
    IN  IF c.facts.pdf_request = "cover_letter" /\ c.active_letter = NoLetter
        THEN [Reply(c, "pdf", "needs_draft", 200, stored.formatted, "",
                    stored.letter_id, <<>>)
                 EXCEPT !.letters = stored.letters, !.issued = stored.issued]
        ELSE pdf_export_unchecked(c, llm, render)

\* chat.py 257-364
pdf_export(c, llm, render) ==
    LET letter_record == c.active_letter
        missing_fields == find_unknown_placeholders(letter_record.text)
    IN  IF /\ c.in_resume_advice_mode
           /\ c.facts.pdf_request = "cover_letter"
           /\ c.active_letter = NoLetter
        THEN respond_with_assistant_message(c, "pdf", "blocked_in_resume_mode",
                 "While we're working on resume feedback, I won't create PDFs. I can generate PDFs for cover letters - ask me to draft a cover letter when you're ready.",
                 "", <<>>, {"pdf_request_blocked_in_resume_mode"}, 200, "")
        ELSE IF c.facts.pdf_request # "cover_letter" THEN resume_pdf_request(c, llm)
        ELSE IF letter_record = NoLetter
        THEN respond_with_assistant_message(c, "pdf", "needs_draft",
                 "I'll create a cover letter for you first, then generate the PDF. Please share the job description and company name so I can draft it.",
                 "", <<>>, {"pdf_requested", "needs_draft"}, 200, "")
        ELSE IF missing_fields # <<>>
        THEN respond_with_assistant_message(c, "pdf", "missing_fields",
                 "I'll generate your PDF as soon as you provide: "
                 \o Join(missing_fields, ", ")
                 \o ". Please share these details and I'll create the PDF immediately.",
                 letter_record.id, <<>>, {"pdf_requested", "missing_fields"}, 200, "")
        ELSE IF render = "raises"
        THEN [respond_with_assistant_message(c, "pdf", "pdf_error",
                 "I encountered a technical error while generating your PDF: "
                 \o render_error_message
                 \o "\n\nThis is a temporary issue with the PDF rendering engine. Please try again in a moment, or contact support if the problem persists.",
                 letter_record.id, <<>>, {"pdf_error"}, 200, "pdf_generation_failed")
                 EXCEPT !.rendered = TRUE]
        ELSE [respond_with_assistant_message(c, "pdf", "pdf_generated",
                 "Here is your PDF cover letter:",
                 letter_record.id, <<letter_record.id \o "-pdf">>, {"pdf_generated"}, 200, "")
                 EXCEPT !.rendered = TRUE]

-----------------------------------------------------------------------------
(* routes/chat.py 546-736: resume review *)

resume_review_request(c, llm) ==
    LET resume_record == c.resume_record
        review_text == (IF strip(llm.text) = "" THEN review_empty_text ELSE strip(llm.text))
                       \o review_follow_up
    IN  IF resume_record = NoUpload
        THEN respond_with_assistant_message(c, "review", "needs_resume_upload",
                 "I'd be happy to review your resume! However, I don't see any resume uploaded yet. Please upload your resume using the file upload panel on the right, and I'll provide detailed feedback.",
                 "", <<>>, {"resume_review_requested", "needs_resume_upload"}, 200, "")
        ELSE IF resume_record.text = ""
        THEN respond_with_assistant_message(c, "review", "no_text_content",
                 "I found your resume file (" \o resume_record.name
                 \o "), but I'm unable to extract text from it. This might be an image-based PDF or a format I can't read. Please try uploading a text-based PDF or Word document for me to review.",
                 "", <<>>, {"resume_review_requested", "no_text_content"}, 200, "")
        ELSE IF llm.outcome = "ok"
        THEN asked(respond_with_assistant_message(c, "review", "resume_review",
                       review_text, "", <<>>, {"resume_review"}, 200, ""), 1)
        ELSE IF llm.outcome = "api_error"
        THEN asked(Reply(c, "review", "resume_review_api_error", 502,
                         "I encountered an error while trying to review your resume. Please try again in a moment. If the problem persists, please check your connection.",
                         "Upstream OpenAI request failed.", "", <<>>), 1)
        ELSE \* get_openai_client() is inside the try: its RuntimeError lands here
             asked(Reply(c, "review", "resume_review_error", 500,
                         "I encountered an unexpected error while reviewing your resume. Please try again.",
                         "Unexpected error during resume review.", "", <<>>),
                   IF llm.outcome = "unavailable" THEN 0 ELSE 1)

-----------------------------------------------------------------------------
(* routes/chat.py 781-872: job-description capture, the missing-context   *)
(* guard and the placeholder fill                                          *)

\* job_description_capture without the store of chat.py 786-790
job_description_acknowledged(c) ==
    respond_with_assistant_message(c, "job", "job_description_saved",
        "Thanks for sharing the job description! I've saved it for you. What would you like me to help you with?",
        "", <<>>, {"job_description_saved"}, 200, "")

\* the bullets of chat.py 794-795 are ASCII dashes here
job_description_capture(c) ==
    LET jobs == store_job_description(c.jobs, c.clock, c.session.profile_id,
                                      c.thread_id, c.message)
        stored_job_description ==
            latest_job_description_for_thread(jobs, c.session.profile_id, c.thread_id)
        saved_excerpt == stored_job_description.excerpt
        reply_text ==
            "Thanks for sharing the job description! I've saved it for you. What would you like me to help you with?\n\n- Say 'draft a cover letter' if you want me to create a tailored cover letter\n- Say 'help with my resume' if you want resume advice for this role"
            \o (IF saved_excerpt # "" THEN "\n\nSaved highlight: " \o saved_excerpt ELSE "")
    IN  [respond_with_assistant_message(c, "job", "job_description_saved", reply_text,
                                        "", <<>>, {"job_description_saved"}, 200, "")
            EXCEPT !.jobs = jobs]

\* chat.py 819-847
guard_refuses_resume(c) == ~c.profile_has_uploads /\ c.facts.requests_resume

guard_refuses_cover_letter(c) ==
    ~c.profile_has_uploads /\ c.facts.requests_cover_letter /\ c.active_letter = NoLetter

missing_context_guard(c) ==
    IF c.facts.requests_resume
    THEN Reply(c, "guard", "resume_needs_upload", 200,
               "I cannot update your resume before you upload it on the right-hand side. Please add a resume, portfolio, or previous cover letter so I have your background on file.",
               "", "", <<>>)
    ELSE Reply(c, "guard", "cover_letter_needs_upload", 200,
               "Are you sure you want me to make a cover letter when I do not have any of your previous work information on file? Please upload a resume, portfolio, or previous cover letter so I can personalize the draft.",
               "", "", <<>>)

\* chat.py 850-855: [text, replaced]
placeholder_fill_attempt_with_fallback(c) ==
    apply_placeholder_updates(
        c.active_letter.text,
        parse_placeholder_updates(c.message, c.available_placeholder_keys, TRUE),
        c.placeholder_tokens)

placeholder_fill_attempt(c) ==
    apply_placeholder_updates(
        c.active_letter.text,
        parse_placeholder_updates(c.message, c.available_placeholder_keys,
                                  ~c.adjustment_requested),
        c.placeholder_tokens)

\* the reply that shows a saved draft: saved is what save_cover_letter
\* returned, follow_up_note what is appended to the formatted text
letter_reply(c, branch, step, status, error, saved, follow_up_note) ==
    [Reply(c, branch, step, status, saved.formatted \o follow_up_note, error,
           saved.letter_id, <<>>)
        EXCEPT !.letters = saved.letters, !.issued = saved.issued]

\* chat.py 858-872, 984-1000
updated_letter_reply(c, branch, step, saved) ==
    letter_reply(c, branch, step, 200, "", saved,
                 letter_follow_up_text(find_unknown_placeholders(saved.formatted)))

\* chat.py 856-872
placeholder_fill(c) ==
    updated_letter_reply(c, "fill", "placeholders_filled",
        save_cover_letter(c.letters, c.issued, c.clock, c.session.profile_id,
                          c.thread_id, placeholder_fill_attempt(c).text,
                          c.active_letter.id))

-----------------------------------------------------------------------------
(* routes/chat.py 874-1034: adjustment of the active draft *)

\* adjustment_failed after a second call of the model
adjustment_failed_after_retry(c, outcome, shown) ==
    asked(Reply(c, "adjust", "error", 500, shown,
                "Unexpected error contacting OpenAI.", c.active_letter.id, <<>>), 2)

\* chat.py 875-895 and 1001-1034: the draft as it is, with its note
adjustment_failed_saving_reply(c, outcome, shown) ==
    LET saved == save_cover_letter(c.letters, c.issued, c.clock, c.session.profile_id,
                                   c.thread_id, shown, c.active_letter.id)
    IN  [asked(Reply(c, "adjust",
                     IF outcome = "unavailable" THEN "openai_unavailable"
                     ELSE IF outcome = "api_error" THEN "api_error" ELSE "error",
                     IF outcome = "unavailable" THEN 200
                     ELSE IF outcome = "api_error" THEN 502 ELSE 500,
                     shown, outcome, c.active_letter.id, <<>>),
               IF outcome = "unavailable" THEN 0 ELSE 1)
            EXCEPT !.letters = saved.letters]

adjustment_failed(c, outcome, shown) ==
    IF outcome = "unavailable"
    THEN asked(Reply(c, "adjust", "openai_unavailable", 200,
                     shown \o "\n\nI couldn't reach OpenAI to apply that change. Please try again shortly.",
                     "openai_unavailable", c.active_letter.id, <<>>), 0)
    ELSE IF outcome = "api_error"
    THEN asked(Reply(c, "adjust", "api_error", 502, shown,
                     "Upstream OpenAI request failed.", c.active_letter.id, <<>>), 1)
    ELSE asked(Reply(c, "adjust", "error", 500, shown,
                     "Unexpected error contacting OpenAI.", c.active_letter.id, <<>>), 1)

\* chat.py 979-982: the model's text, or the draft when the model says nothing
adjusted_text(c, reply_text) ==
    IF reply_text # "" THEN reply_text ELSE c.active_letter.text

letter_adjustment(c, llm) ==
    IF llm.outcome = "ok"
    THEN asked(updated_letter_reply(c, "adjust", "adjusted",
                   save_cover_letter(c.letters, c.issued, c.clock, c.session.profile_id,
                       c.thread_id,
                       adjusted_text(c, clean_cover_letter_response(strip(llm.text))),
                       c.active_letter.id)), 1)
    ELSE adjustment_failed(c, llm.outcome,
             c.active_letter.text
             \o letter_follow_up_text(find_unknown_placeholders(c.active_letter.text)))

-----------------------------------------------------------------------------
(* routes/chat.py 1036-1280: fresh drafting and conversation *)

\* chat.py 1055-1061, 1202-1210, 1241-1247, 1263-1269: the text is stored as a new draft
\* when `store` holds, and shown as it is otherwise
fresh_reply_always_stored(c, step, status, error, store, text, follow_up_note, calls) ==
    asked(letter_reply(c, "draft", step, status, error,
              store_cover_letter(c.letters, c.issued, c.clock, c.session.profile_id,
                                 c.thread_id, text),
              follow_up_note), calls)

fresh_reply(c, step, status, error, store, text, follow_up_note, calls) ==
    IF store
    THEN asked(letter_reply(c, "draft", step, status, error,
                   store_cover_letter(c.letters, c.issued, c.clock, c.session.profile_id,
                                      c.thread_id, text),
                   follow_up_note), calls)
    ELSE asked(Reply(c, "draft", step, status, text, error, "", <<>>), calls)

\* chat.py 1192-1210
fresh_answer(c, should_draft, base_reply, appears_to_be_letter, follow_up_note) ==
    fresh_reply(c, IF should_draft \/ appears_to_be_letter THEN "drafted" ELSE "conversation",
                200, "", should_draft \/ appears_to_be_letter,
                IF should_draft \/ appears_to_be_letter
                THEN clean_cover_letter_response(base_reply) ELSE base_reply,
                follow_up_note, 1)

\* chat.py 1212-1224: the assistant message of a successful turn
fresh_saved(c, answered, metadata) ==
    [answered EXCEPT !.history =
        save_message_to_history(c.mongo, c.history, c.clock, c.session, c.thread_id,
                                "assistant", answered.reply, metadata)]

fresh_answered(c, should_draft, base_reply, appears_to_be_letter, follow_up_note) ==
    fresh_saved(c,
        fresh_answer(c, should_draft, base_reply, appears_to_be_letter, follow_up_note),
        (IF should_draft THEN {"should_draft"} ELSE {})
        \cup (IF ~should_draft /\ appears_to_be_letter
              THEN {"appears_to_be_letter"} ELSE {}))

fresh_outcome(c, llm, should_draft, fallback_text, follow_up_note) ==
    IF llm.outcome = "unavailable"
    THEN fresh_reply(c, "openai_unavailable", 200, "openai_unavailable", should_draft,
             Join(<<"We hit an issue contacting OpenAI. Please check the server configuration.",
                    "", fallback_text>>, "\n"),
             follow_up_note, 0)
    ELSE IF llm.outcome = "ok"
    THEN LET base_reply == IF strip(llm.text) # "" THEN strip(llm.text) ELSE fallback_text
         IN  fresh_answered(c, should_draft, base_reply,
                            appears_to_be_cover_letter(base_reply), follow_up_note)
    ELSE IF llm.outcome = "api_error"
    THEN fresh_reply(c, "api_error", 502, "Upstream OpenAI request failed.",
                     should_draft, fallback_text, follow_up_note, 1)
    ELSE fresh_reply(c, "error", 500, "Unexpected error contacting OpenAI.",
                     should_draft, fallback_text, follow_up_note, 1)

fresh_draft(c, llm) ==
    LET has_attachments == c.attachments # <<>>
        should_draft == c.facts.should_draft[has_attachments]
    IN  fresh_outcome(c, llm, should_draft,
            build_fallback_reply(should_draft, has_attachments,
                                 c.stored_job_description # NoJob),
            IF should_draft THEN LETTER_READY_FOLLOW_UP ELSE "")

-----------------------------------------------------------------------------
(* routes/chat.py 255-1280: the branches in the order of the code *)

\* chat_with_model with the resume-review test before the PDF test
chat_with_model_review_first(c, llm, render) ==
    IF c.facts.resume_review_request THEN resume_review_request(c, llm)
    ELSE IF c.facts.pdf_request # "" THEN pdf_export(c, llm, render)
    ELSE IF /\ c.facts.is_job_description
            /\ ~(\/ c.facts.has_request_intent
                 \/ c.facts.requests_cover_letter
                 \/ c.facts.requests_resume)
         THEN job_description_capture(c)
    ELSE IF guard_refuses_resume(c) \/ guard_refuses_cover_letter(c)
         THEN missing_context_guard(c)
    ELSE IF c.active_letter # NoLetter /\ placeholder_fill_attempt(c).replaced
         THEN placeholder_fill(c)
    ELSE IF c.adjustment_requested /\ c.active_letter # NoLetter
         THEN letter_adjustment(c, llm)
    ELSE fresh_draft(c, llm)

chat_with_model(c, llm, render) ==
    IF c.facts.pdf_request # "" THEN pdf_export(c, llm, render)
    ELSE IF c.facts.resume_review_request THEN resume_review_request(c, llm)
    ELSE IF /\ c.facts.is_job_description
            /\ ~(\/ c.facts.has_request_intent
                 \/ c.facts.requests_cover_letter
                 \/ c.facts.requests_resume)
         THEN job_description_capture(c)
    ELSE IF guard_refuses_resume(c) \/ guard_refuses_cover_letter(c)
         THEN missing_context_guard(c)
    ELSE IF c.active_letter # NoLetter /\ placeholder_fill_attempt(c).replaced
         THEN placeholder_fill(c)
    ELSE IF c.adjustment_requested /\ c.active_letter # NoLetter
         THEN letter_adjustment(c, llm)
    ELSE fresh_draft(c, llm)

-----------------------------------------------------------------------------
(* The requests *)

NoTurn ==
    [op |-> "none", profile_id |-> "", thread_id |-> "", message |-> "",
     has_attachments |-> FALSE, branch |-> "", step |-> "", llm |-> "none", llm_text |-> "",
     llm_calls |-> 0, in_resume_advice_mode |-> FALSE, profile_has_uploads |-> FALSE,
     active_letter |-> NoLetter, letter_id |-> "", token |-> "", code |-> "",
     ok |-> FALSE, deleted |-> 0, codes_deleted |-> 0, sessions_deleted |-> 0,
     upload |-> NoUpload, conversation |-> <<>>, result |-> "", again |-> "",
     file_id |-> ""]

NoResponse ==
    [status |-> 0, reply |-> "", error |-> "", coverLetterId |-> "",
     downloads |-> <<>>, missingFields |-> <<>>, pdf |-> FALSE,
     token |-> "", profileId |-> "", expiresAt |-> 0, code |-> "",
     attachments |-> <<>>, files |-> <<>>]

\* a chat request that checks nothing of its message
message_never_missing(payload) == FALSE

\* chat.py 152-156: the message is missing or blank
message_missing(payload) == strip(payload.message) = ""

\* POST /api/chat with a valid session.  dt is the time that passed since the
\* request before, answers what the model client may answer if it is asked
ChatRequest(session, payload, dt, answers) ==
    /\ requests' = requests + 1
    /\ now' = now + dt
    /\ UNCHANGED <<mongo, in_flight, upload_store>>
    /\ IF message_missing(payload)
       THEN /\ turn' = [NoTurn EXCEPT !.op = "chat",
                                      !.profile_id = session.profile_id,
                                      !.token = session.token,
                                      !.message = payload.message,
                                      !.thread_id = strip(payload.threadId),
                                      !.branch = "rejected"]
            /\ response' = [NoResponse EXCEPT
                               !.status = 400,
                               !.error = "Missing 'message' in request body."]
            /\ UNCHANGED <<uploaded_files, cover_letters, job_descriptions,
                           chat_history, thread_metadata, tokens_issued>>
       ELSE \E c \in {ChatContext(session, payload, mongo, now + dt, uploaded_files,
                                   upload_store, cover_letters, job_descriptions,
                                   chat_history, tokens_issued)} :
            \E probe \in {chat_with_model(c, NoLlm, NoRender)} :
            \E llm \in (IF probe.llm_asked THEN answers ELSE {NoLlm}),
               render \in (IF probe.rendered THEN RenderOutcomes ELSE {NoRender}) :
            \E out \in {IF llm = NoLlm /\ render = NoRender THEN probe
                        ELSE chat_with_model(c, llm, render)} :
                /\ uploaded_files' = c.files
                /\ cover_letters' = out.letters
                /\ job_descriptions' = out.jobs
                /\ chat_history' = out.history
                /\ thread_metadata' =
                       saved_threads(thread_metadata,
                                     SubSeq(out.history, Len(chat_history) + 1,
                                            Len(out.history)))
                /\ tokens_issued' = out.issued
                /\ turn' = [NoTurn EXCEPT
                                !.op = "chat",
                                !.profile_id = session.profile_id,
                                !.token = session.token,
                                !.thread_id = c.thread_id,
                                !.message = c.message,
                                !.has_attachments = c.attachments # <<>>,
                                !.branch = out.branch,
                                !.step = out.step,
                                !.llm = llm.outcome,
                                !.llm_text =
                                    IF out.llm_calls > 0 /\ llm.outcome = "ok"
                                    THEN llm.text ELSE "",
                                !.llm_calls = out.llm_calls,
                                !.conversation =
                                    IF out.llm_calls > 0 /\ out.branch \in {"adjust", "draft"}
                                    THEN prompt_history(
                                             conversation_history(mongo, c.history, session,
                                                                  c.thread_id))
                                    ELSE <<>>,
                                !.in_resume_advice_mode = c.in_resume_advice_mode,
                                !.profile_has_uploads = c.profile_has_uploads,
                                !.active_letter = c.active_letter,
                                !.letter_id = out.cover_letter_id]
                /\ response' = [NoResponse EXCEPT
                                   !.status = out.status,
                                   !.reply = out.reply,
                                   !.error = out.error,
                                   !.coverLetterId = out.cover_letter_id,
                                   !.attachments = c.attachments,
                                   !.downloads = out.downloads,
                                   !.pdf = out.downloads # <<>>]

\* POST /api/uploads with one named file
upload_files(session, file, dt) ==
    LET file_id == generate_token("file", tokens_issued)
        record == [id |-> file_id, profile_id |-> session.profile_id,
                   name |-> file.name, mime_type |-> file.mime_type,
                   uploaded_at |-> now + dt, text |-> file.text]
    IN  /\ now' = now + dt
        /\ uploaded_files' = Append(uploaded_files, record)
        /\ upload_store' = IF mongo THEN save_upload(upload_store, record) ELSE upload_store
        /\ tokens_issued' = tokens_issued + 1
        /\ turn' = [NoTurn EXCEPT !.op = "upload", !.profile_id = session.profile_id]
        /\ response' = [NoResponse EXCEPT !.status = 200]
        /\ UNCHANGED <<mongo, in_flight, cover_letters, job_descriptions, chat_history,
                       thread_metadata, requests>>
        /\ UNCHANGED auth_vars

\* POST /api/cover-letters/<letter_id>/pdf; an exception of the renderer is
\* not caught and becomes the framework's 500
generate_cover_letter_pdf(session, letter_id, render) ==
    \E record \in {LetterById(cover_letters, letter_id)} :
    \E missing_fields \in {find_unknown_placeholders(record.text)} :
    LET seen == [NoTurn EXCEPT !.op = "export", !.profile_id = session.profile_id,
                               !.letter_id = letter_id]
    IN  /\ requests' = requests + 1
        /\ UNCHANGED <<mongo, in_flight, now, uploaded_files, upload_store, cover_letters,
                       job_descriptions, chat_history, thread_metadata, tokens_issued>>
        /\ UNCHANGED auth_vars
        /\ IF record = NoLetter \/ record.profile_id # session.profile_id
           THEN /\ render = NoRender
                /\ turn' = [seen EXCEPT !.step = "not_found"]
                /\ response' = [NoResponse EXCEPT !.status = 404,
                                                  !.error = "Cover letter not found."]
           ELSE IF missing_fields # <<>>
           THEN /\ render = NoRender
                /\ turn' = [seen EXCEPT !.step = "missing_fields", !.active_letter = record]
                /\ response' = [NoResponse EXCEPT
                                   !.status = 400,
                                   !.error = "cover_letter_missing_info",
                                   !.reply = "Please provide the following details before downloading a PDF: "
                                             \o Join(missing_fields, ", ") \o ".",
                                   !.missingFields = missing_fields]
           ELSE /\ render \in RenderOutcomes
                /\ turn' = [seen EXCEPT !.step = IF render = "bytes" THEN "pdf_generated"
                                                 ELSE "pdf_error",
                                        !.active_letter = record]
                /\ response' = IF render = "bytes"
                               THEN [NoResponse EXCEPT !.status = 200, !.pdf = TRUE]
                               ELSE [NoResponse EXCEPT !.status = 500]

-----------------------------------------------------------------------------
(* The system.  A run is MaxRequests requests of one workspace, with at most *)
(* MaxUploads uploads among them.  The last request is any request; the     *)
(* requests before it are the ones that build the stores (a draft, a review, *)
(* a job description), answered by the model with a letter.                 *)

MaxRequests == 2
MaxUploads == 1

Profiles == {"P1"}

\* at least a tick of the clock passes between two requests
TimeSteps == {1}

PrepMessages == {MsgDraftLetter, MsgReview, MsgJobPosting, MsgCompany}
PrepThreadIds == {"", "t1"}
PrepLlmOutcomes ==
    {[outcome |-> "ok", text |-> ReplyLetter], [outcome |-> "ok", text |-> ReplyFullLetter]}

\* fileIds of a payload: none, or the ids of the profile's uploads
FileIdChoices(files, profile_id) ==
    LET mine == SelectSeq(files, LAMBDA record : record.profile_id = profile_id)
    IN  {<<>>, [i \in 1..Len(mine) |-> mine[i].id]}

\* the request threads of the server that may be inside save_cover_letter at
\* the same time, and a thread that is not
RaceWriters == {"A", "B"}

NoWrite ==
    [pc |-> "idle", letter_id |-> "", text |-> "", header_line |-> "", timestamp |-> 0,
     thread_id |-> ""]

Init ==
    /\ mongo \in BOOLEAN
    /\ in_flight = [w \in RaceWriters |-> NoWrite]
    /\ now = 1
    /\ uploaded_files = <<>>
    /\ upload_store = <<>>
    /\ cover_letters = <<>>
    /\ job_descriptions = <<>>
    /\ chat_history = <<>>
    /\ thread_metadata = <<>>
    /\ pending_codes = <<>>
    /\ sessions = <<>>
    /\ verification_codes = <<>>
    /\ session_store = <<>>
    /\ tokens_issued = 0
    /\ requests = 0
    /\ turn = NoTurn
    /\ response = NoResponse

LastRequest == requests + 1 = MaxRequests

Prepare ==
    /\ requests + 1 < MaxRequests
    /\ UNCHANGED auth_vars
    /\ \E p \in Profiles, message \in PrepMessages, threadId \in PrepThreadIds,
          dt \in TimeSteps :
           ChatRequest(SessionOf(p),
                       [message |-> message, threadId |-> threadId, fileIds |-> <<>>],
                       dt, PrepLlmOutcomes)

Chat ==
    /\ LastRequest
    /\ UNCHANGED auth_vars
    /\ \E p \in Profiles, message \in Messages, threadId \in ThreadIds, dt \in TimeSteps :
           \E fileIds \in FileIdChoices(uploaded_files, p) :
               ChatRequest(SessionOf(p),
                           [message |-> message, threadId |-> threadId,
                            fileIds |-> fileIds],
                           dt, LlmOutcomes)

Upload ==
    /\ requests < MaxRequests
    /\ Len(uploaded_files) < MaxUploads
    /\ \E p \in Profiles, file \in UploadChoices, dt \in TimeSteps :
           upload_files(SessionOf(p), file, dt)

ExportPdf ==
    /\ LastRequest
    /\ \E p \in Profiles, render \in RenderOutcomes \cup {NoRender} :
           \E letter_id \in {cover_letters[i].id : i \in 1..Len(cover_letters)}
                            \cup {"letter_0"} :
               generate_cover_letter_pdf(SessionOf(p), letter_id, render)

Next == Prepare \/ Chat \/ Upload \/ ExportPdf

Spec == Init /\ [][Next]_vars

-----------------------------------------------------------------------------
(* A conversation: MaxTurns requests in one explicit thread, so that the    *)
(* thread's history grows past the five messages chat.py 228-233 reads.     *)
(* The user drafts, fills the placeholder, asks for a review and for the    *)
(* PDF, in any order; the model answers with a letter that has one field.   *)

MaxTurns == 4

TalkMessages == {MsgDraftLetter, MsgCompany, MsgReview, MsgCreatePdf}
TalkThreadIds == {"t1"}
TalkLlmOutcomes == {[outcome |-> "ok", text |-> ReplyOneField]}
TalkUploads == {file \in UploadChoices : file.text # ""}

Talk ==
    /\ requests < MaxTurns
    /\ UNCHANGED auth_vars
    /\ \E p \in Profiles, message \in TalkMessages, threadId \in TalkThreadIds,
          dt \in TimeSteps :
           ChatRequest(SessionOf(p),
                       [message |-> message, threadId |-> threadId, fileIds |-> <<>>],
                       dt, TalkLlmOutcomes)

TalkUpload ==
    /\ requests < MaxTurns
    /\ Len(uploaded_files) < MaxUploads
    /\ \E p \in Profiles, file \in TalkUploads, dt \in TimeSteps :
           upload_files(SessionOf(p), file, dt)

TalkNext == Talk \/ TalkUpload

TalkSpec == Init /\ [][TalkNext]_vars

-----------------------------------------------------------------------------
(* The job-description store on its own: MaxStores calls of                 *)
(* store_job_description, for the profile ids and thread ids a user can     *)
(* supply (routes/auth.py 36-46: the workspace code a user provides is the  *)
(* profile id; chat.py 211: the thread id is the payload's string)          *)

MaxStores == 2

JobProfiles == {"A", "A::B"}
JobThreadIds == {"", "C", "B::C"}

RECURSIVE Repeated(_, _)
Repeated(s, n) == IF n = 0 THEN "" ELSE s \o Repeated(s, n - 1)

\* longer than JOB_DESCRIPTION_MAX_LENGTH
LongJobText == Repeated("Responsibilities and  requirements of the role.\n", 105)

JobTexts == {"  \n ", "Nurse at  Mercy Clinic", "Data engineer\nat Northwind", LongJobText}

StoreJob ==
    /\ requests < MaxStores
    /\ \E profile_id \in JobProfiles, thread_id \in JobThreadIds, text \in JobTexts :
           /\ job_descriptions' = store_job_description(job_descriptions, now + 1,
                                                        profile_id, thread_id, text)
           /\ now' = now + 1
           /\ requests' = requests + 1
           /\ turn' = [NoTurn EXCEPT !.op = "store_job", !.profile_id = profile_id,
                                     !.thread_id = thread_id, !.message = text]
           /\ response' = NoResponse
           /\ UNCHANGED <<mongo, in_flight, uploaded_files, upload_store, cover_letters,
                          chat_history, thread_metadata, tokens_issued>>
           /\ UNCHANGED auth_vars

JobNext == StoreJob

JobSpec == Init /\ [][JobNext]_vars

-----------------------------------------------------------------------------
(* Codes and sessions over HTTP: routes/auth.py, and the chat endpoint with *)
(* its Authorization header.  The clock is read in seconds here; several    *)
(* requests fall in one second, and time passes between requests by the     *)
(* lifetimes of a code and of a session, so that a request can meet a code  *)
(* or a session at the very second it expires.  Failures of the database    *)
(* are not modelled.                                                        *)

MaxAuthRequests == 6

\* the code a user supplies to /request-code (none, or a workspace code), and
\* what generate_code() may return
ProvidedCodes == {"", " ab "}
GeneratedCodes == {"K7"}

\* the code a user supplies to /verify
VerifyCodes == {"", "ab", "k7"}

\* the Authorization header of a request: none, a token that was never
\* issued, or one of the session tokens issued so far
AuthHeaders(issued) ==
    {"", "Bearer bogus"} \cup {"Bearer " \o generate_token("sess", k - 1) : k \in 1..issued}

ElapseSteps == {CODE_TTL_SECONDS, SESSION_TTL_SECONDS}

AuthMessages == {MsgMissing, MsgBlank, MsgDraftLetter}
AuthThreadIds == {"t1"}
AuthLlmOutcomes == {[outcome |-> "ok", text |-> ReplyOneField]}

\* main.py: prune_expired() runs before every request; what is left of the
\* request, given the two in-memory dicts after the sweep
Swept(records) == prune_expired(records, now)

\* POST /api/auth/request-code
request_code(provided_code, generated) ==
    LET code == IF provided_code # "" THEN upper(strip(provided_code)) ELSE generated
        profile_id == code
        expires_at == now + CODE_TTL_SECONDS
        record == [code |-> code, profile_id |-> profile_id,
                   expires_at |-> expires_at, used |-> FALSE]
    IN  /\ requests' = requests + 1
        /\ IF mongo
           THEN /\ verification_codes' =
                       save_verification_code(verification_codes, code, profile_id,
                                              expires_at)
                /\ pending_codes' = Swept(pending_codes)
           ELSE /\ pending_codes' = Put(Swept(pending_codes), code, record)
                /\ UNCHANGED verification_codes
        /\ sessions' = Swept(sessions)
        /\ turn' = [NoTurn EXCEPT !.op = "request_code", !.code = code,
                                  !.profile_id = profile_id]
        /\ response' = [NoResponse EXCEPT !.status = 200, !.code = code,
                                          !.profileId = profile_id,
                                          !.expiresAt = expires_at * 1000]
        /\ UNCHANGED <<mongo, in_flight, now, session_store, tokens_issued>>
        /\ UNCHANGED chat_vars

\* POST /api/auth/verify
verify_code(supplied) ==
    LET code == upper(strip(supplied))
        record == IF mongo THEN get_verification_code(verification_codes, code)
                  ELSE NoCode
        active == mongo /\ record # NoCode /\ record.expires_at > now
        existing_profile ==
            mongo /\ ~active /\ get_profile_by_code(session_store, chat_history, code)
        in_memory == ~active /\ ~existing_profile
        pending == Swept(pending_codes)
        refused == in_memory /\ (code \notin DOMAIN pending
                                 \/ pending[code].expires_at <= now)
        expires_at == now + SESSION_TTL_SECONDS
        token == generate_token("sess", tokens_issued)
        session_data == [token |-> token, profile_id |-> code, access_code |-> code,
                         issued_at |-> now, expires_at |-> expires_at]
        seen == [NoTurn EXCEPT !.op = "verify", !.code = code]
    IN  /\ requests' = requests + 1
        /\ UNCHANGED <<mongo, in_flight, now>>
        /\ UNCHANGED chat_vars
        /\ IF code = ""
           THEN /\ pending_codes' = pending
                /\ sessions' = Swept(sessions)
                /\ turn' = seen
                /\ response' = [NoResponse EXCEPT !.status = 400,
                                                  !.error = "Code is required."]
                /\ UNCHANGED <<verification_codes, session_store, tokens_issued>>
           ELSE /\ verification_codes' =
                       IF active THEN mark_code_as_used(verification_codes, code).codes
                       ELSE verification_codes
                /\ pending_codes' = IF in_memory THEN Drop(pending, {code}) ELSE pending
                /\ IF refused
                   THEN /\ sessions' = Swept(sessions)
                        /\ turn' = seen
                        /\ response' = [NoResponse EXCEPT
                                           !.status = 401,
                                           !.error = "Invalid or expired code."]
                        /\ UNCHANGED <<session_store, tokens_issued>>
                   ELSE /\ session_store' =
                               IF mongo
                               THEN save_session(session_store, now, token, code, code,
                                                 expires_at)
                               ELSE session_store
                        /\ sessions' = Put(Swept(sessions), token, session_data)
                        /\ tokens_issued' = tokens_issued + 1
                        /\ turn' = [seen EXCEPT !.ok = TRUE, !.token = token,
                                                !.profile_id = code]
                        /\ response' = [NoResponse EXCEPT
                                           !.status = 200, !.token = token,
                                           !.profileId = code,
                                           !.expiresAt = expires_at * 1000]

\* GET /api/auth/session
get_session_info(auth_header) ==
    LET found == require_session(auth_header, mongo, Swept(sessions), session_store, now)
        token == strip(Slice(auth_header, 8, Len(auth_header)))
    IN  /\ requests' = requests + 1
        /\ pending_codes' = Swept(pending_codes)
        /\ sessions' = found.memory
        /\ session_store' = found.store
        /\ turn' = [NoTurn EXCEPT !.op = "session", !.token = token,
                                  !.ok = found.status = 200,
                                  !.profile_id = found.session.profile_id]
        /\ response' = IF found.status = 200
                       THEN [NoResponse EXCEPT
                                !.status = 200, !.token = found.session.token,
                                !.profileId = found.session.profile_id,
                                !.expiresAt = found.session.expires_at * 1000]
                       ELSE [NoResponse EXCEPT !.status = found.status,
                                               !.error = found.error]
        /\ UNCHANGED <<mongo, in_flight, now, verification_codes, tokens_issued>>
        /\ UNCHANGED chat_vars

\* POST /api/chat with the Authorization header of the request
chat_endpoint(auth_header, payload, answers) ==
    LET found == require_session(auth_header, mongo, Swept(sessions), session_store, now)
        token == strip(Slice(auth_header, 8, Len(auth_header)))
    IN  /\ pending_codes' = Swept(pending_codes)
        /\ sessions' = found.memory
        /\ session_store' = found.store
        /\ UNCHANGED verification_codes
        /\ IF found.status = 200
           THEN ChatRequest(found.session, payload, 0, answers)
           ELSE /\ requests' = requests + 1
                /\ turn' = [NoTurn EXCEPT !.op = "chat_denied", !.token = token,
                                          !.message = payload.message]
                /\ response' = [NoResponse EXCEPT !.status = found.status,
                                                  !.error = found.error]
                /\ UNCHANGED <<mongo, in_flight, now, tokens_issued>>
                /\ UNCHANGED chat_vars

RequestCode ==
    /\ requests < MaxAuthRequests
    /\ \E provided_code \in ProvidedCodes, generated \in GeneratedCodes :
           request_code(provided_code, generated)

Verify ==
    /\ requests < MaxAuthRequests
    /\ \E supplied \in VerifyCodes : verify_code(supplied)

SessionInfo ==
    /\ requests < MaxAuthRequests
    /\ \E auth_header \in AuthHeaders(tokens_issued) : get_session_info(auth_header)

AuthChat ==
    /\ requests < MaxAuthRequests
    /\ \E auth_header \in AuthHeaders(tokens_issued), message \in AuthMessages,
          threadId \in AuthThreadIds :
           chat_endpoint(auth_header,
                         [message |-> message, threadId |-> threadId, fileIds |-> <<>>],
                         AuthLlmOutcomes)

\* the maintenance call of auth_service.cleanup_expired_codes_and_sessions
Cleanup ==
    /\ requests < MaxAuthRequests
    /\ mongo
    /\ \E swept \in {cleanup_expired_codes_and_sessions(verification_codes,
                                                         session_store, now)} :
           /\ verification_codes' = swept.codes
           /\ session_store' = swept.store
           /\ turn' = [NoTurn EXCEPT !.op = "cleanup",
                                     !.codes_deleted = swept.codes_deleted,
                                     !.sessions_deleted = swept.sessions_deleted]
    /\ requests' = requests + 1
    /\ response' = NoResponse
    /\ UNCHANGED <<mongo, in_flight, now, pending_codes, sessions, tokens_issued>>
    /\ UNCHANGED chat_vars

\* time passes
Elapse ==
    /\ requests < MaxAuthRequests
    /\ \E seconds \in ElapseSteps : now' = now + seconds
    /\ requests' = requests + 1
    /\ turn' = [NoTurn EXCEPT !.op = "elapse"]
    /\ response' = NoResponse
    /\ UNCHANGED <<mongo, in_flight, tokens_issued>>
    /\ UNCHANGED chat_vars
    /\ UNCHANGED auth_vars

AuthNext == RequestCode \/ Verify \/ SessionInfo \/ AuthChat \/ Cleanup \/ Elapse

AuthSpec == Init /\ [][AuthNext]_vars

-----------------------------------------------------------------------------
(* services/auth_service.py called directly, as the tests of the persistent *)
(* authentication do: codes and sessions are saved, looked up, marked,      *)
(* deleted and swept in the database, whatever ENABLE_MONGODB says          *)

MaxStoreCalls == 4

StoreCodes == {"A1", "B2"}
StoreProfiles == {"profile-1", "profile-2"}
StoreTokens == {generate_token("sess", 0), generate_token("sess", 1)}

\* a code or a session is saved with an expiry at the current second or a
\* lifetime ahead of it
StoreLifetimes == {0, CODE_TTL_SECONDS}

SaveCode ==
    /\ requests < MaxStoreCalls
    /\ \E code \in StoreCodes, profile_id \in StoreProfiles, lifetime \in StoreLifetimes :
           /\ verification_codes' =
                  save_verification_code(verification_codes, code, profile_id,
                                         now + lifetime)
           /\ turn' = [NoTurn EXCEPT !.op = "save_code", !.code = code,
                                     !.profile_id = profile_id]
    /\ requests' = requests + 1
    /\ UNCHANGED <<mongo, in_flight, now, pending_codes, sessions, session_store, tokens_issued,
                   response>>
    /\ UNCHANGED chat_vars

MarkUsed ==
    /\ requests < MaxStoreCalls
    /\ \E code \in StoreCodes :
           \E marked \in {mark_code_as_used(verification_codes, code)} :
               /\ verification_codes' = marked.codes
               /\ turn' = [NoTurn EXCEPT !.op = "mark_used", !.code = code,
                                         !.ok = marked.ok]
    /\ requests' = requests + 1
    /\ UNCHANGED <<mongo, in_flight, now, pending_codes, sessions, session_store, tokens_issued,
                   response>>
    /\ UNCHANGED chat_vars

SaveSession ==
    /\ requests < MaxStoreCalls
    /\ \E token \in StoreTokens, profile_id \in StoreProfiles, lifetime \in StoreLifetimes :
           /\ session_store' =
                  save_session(session_store, now, token, profile_id, "access-code",
                               now + lifetime)
           /\ turn' = [NoTurn EXCEPT !.op = "save_session", !.token = token,
                                     !.profile_id = profile_id]
    /\ requests' = requests + 1
    /\ UNCHANGED <<mongo, in_flight, now, pending_codes, sessions, verification_codes,
                   tokens_issued, response>>
    /\ UNCHANGED chat_vars

DeleteSession ==
    /\ requests < MaxStoreCalls
    /\ \E token \in StoreTokens :
           \E deleted \in {delete_session(session_store, token)} :
               /\ session_store' = deleted.store
               /\ turn' = [NoTurn EXCEPT !.op = "delete_session", !.token = token,
                                         !.ok = deleted.ok]
    /\ requests' = requests + 1
    /\ UNCHANGED <<mongo, in_flight, now, pending_codes, sessions, verification_codes,
                   tokens_issued, response>>
    /\ UNCHANGED chat_vars

StoreCleanup ==
    /\ requests < MaxStoreCalls
    /\ \E swept \in {cleanup_expired_codes_and_sessions(verification_codes,
                                                         session_store, now)} :
           /\ verification_codes' = swept.codes
           /\ session_store' = swept.store
           /\ turn' = [NoTurn EXCEPT !.op = "cleanup",
                                     !.codes_deleted = swept.codes_deleted,
                                     !.sessions_deleted = swept.sessions_deleted]
    /\ requests' = requests + 1
    /\ UNCHANGED <<mongo, in_flight, now, pending_codes, sessions, tokens_issued, response>>
    /\ UNCHANGED chat_vars

\* time passes
Tick ==
    /\ requests < MaxStoreCalls
    /\ now' = now + CODE_TTL_SECONDS
    /\ requests' = requests + 1
    /\ turn' = [NoTurn EXCEPT !.op = "elapse"]
    /\ UNCHANGED <<mongo, in_flight, tokens_issued, response>>
    /\ UNCHANGED chat_vars
    /\ UNCHANGED auth_vars

AuthStoreNext ==
    SaveCode \/ MarkUsed \/ SaveSession \/ DeleteSession \/ StoreCleanup \/ Tick

AuthStoreSpec == Init /\ [][AuthStoreNext]_vars

-----------------------------------------------------------------------------
(* services/chat_history_service.py called directly, as the tests of the    *)
(* chat history do: messages are saved, threads renamed and deleted.  The   *)
(* clock advances between two calls, so that no two messages carry the same *)
(* timestamp                                                                *)

MaxHistoryCalls == 4

\* (access_code, profile_id) of the caller
HistoryWorkspaces == {<<"code-1", "profile-1">>, <<"code-2", "profile-2">>}

\* thread_id as given: none, or an id
HistoryThreadIds == {"", "alpha"}

LongQuestion ==
    "Could you help me tailor my resume for a senior data engineering role in Boston?"

\* role and content of a saved message
HistoryMessages ==
    {<<"user", "First thread">>, <<"user", LongQuestion>>, <<"assistant", "Second thread">>}

HistoryTitles == {"Alpha Thread"}

\* limit of get_chat_history, as GET /api/chat/history?limit= passes it, and
\* its default
HistoryLimits == {2, DEFAULT_HISTORY_LIMIT}

SaveMessage ==
    /\ requests < MaxHistoryCalls
    /\ \E workspace \in HistoryWorkspaces, thread_id \in HistoryThreadIds,
          message \in HistoryMessages :
           /\ chat_history' =
                  save_message(chat_history, now + 1, workspace[1], workspace[2],
                               thread_id, message[1], message[2],
                               [source |-> "unit-test"])
           /\ thread_metadata' =
                  update_thread_metadata(thread_metadata, now + 1, workspace[1],
                                         workspace[2], thread_id, "")
           /\ turn' = [NoTurn EXCEPT !.op = "save_message", !.code = workspace[1],
                                     !.profile_id = workspace[2],
                                     !.thread_id = thread_id, !.message = message[2]]
    /\ now' = now + 1
    /\ requests' = requests + 1
    /\ UNCHANGED <<mongo, in_flight, uploaded_files, upload_store, cover_letters, job_descriptions,
                   tokens_issued, response>>
    /\ UNCHANGED auth_vars

RenameThread ==
    /\ requests < MaxHistoryCalls
    /\ \E workspace \in HistoryWorkspaces, thread_id \in HistoryThreadIds,
          title \in HistoryTitles :
           /\ thread_metadata' =
                  update_thread_metadata(thread_metadata, now + 1, workspace[1],
                                         workspace[2], thread_id, title)
           /\ turn' = [NoTurn EXCEPT !.op = "rename_thread", !.code = workspace[1],
                                     !.profile_id = workspace[2],
                                     !.thread_id = thread_id, !.message = title]
    /\ now' = now + 1
    /\ requests' = requests + 1
    /\ UNCHANGED <<mongo, in_flight, uploaded_files, upload_store, cover_letters, job_descriptions,
                   chat_history, tokens_issued, response>>
    /\ UNCHANGED auth_vars

DeleteThread ==
    /\ requests < MaxHistoryCalls
    /\ \E workspace \in HistoryWorkspaces, thread_id \in HistoryThreadIds :
           \E left \in {delete_thread_history(chat_history, thread_metadata,
                                              workspace[1], workspace[2], thread_id)} :
               /\ chat_history' = left.history
               /\ thread_metadata' = left.metadata
               /\ turn' = [NoTurn EXCEPT !.op = "delete_thread", !.code = workspace[1],
                                         !.profile_id = workspace[2],
                                         !.thread_id = thread_id,
                                         !.deleted = left.deleted]
    /\ requests' = requests + 1
    /\ UNCHANGED <<mongo, in_flight, now, uploaded_files, upload_store, cover_letters,
                   job_descriptions, tokens_issued, response>>
    /\ UNCHANGED auth_vars

HistoryNext == SaveMessage \/ RenameThread \/ DeleteThread

HistorySpec == Init /\ [][HistoryNext]_vars

-----------------------------------------------------------------------------
(* Uploads of several kinds by two profiles, and the choice of the resume   *)
(* among them: routes/uploads.py and letter_service.select_resume_upload    *)

MaxFiles == 3

UploadProfiles == {"P1", "P2"}

\* name and MIME type of an uploaded file: a name with "cv", a PDF without a
\* name signal, a plain text file, and a PDF named as a resume
ResumeCandidates ==
    {[name |-> "My_CV.docx",
      mime_type |-> "application/vnd.openxmlformats-officedocument.wordprocessingml.document",
      text |-> ""],
     [name |-> "letter.pdf", mime_type |-> "application/pdf", text |-> ""],
     [name |-> "notes.txt", mime_type |-> "text/plain", text |-> ""],
     [name |-> "Resume_final.PDF", mime_type |-> "Application/PDF", text |-> ""]}

UploadFile ==
    /\ Len(uploaded_files) < MaxFiles
    /\ \E p \in UploadProfiles, file \in ResumeCandidates, dt \in TimeSteps :
           upload_files(SessionOf(p), file, dt)

\* chat.py 203: the handler picks the resume of the session's profile
SelectResume ==
    /\ \E p \in UploadProfiles :
           turn' = [NoTurn EXCEPT !.op = "select_resume", !.profile_id = p,
                                  !.upload = select_resume_upload(uploaded_files, p)]
    /\ UNCHANGED <<mongo, in_flight, now, tokens_issued, requests, response>>
    /\ UNCHANGED chat_vars
    /\ UNCHANGED auth_vars

UploadNext == UploadFile \/ SelectResume

UploadSpec == Init /\ [][UploadNext]_vars

-----------------------------------------------------------------------------
(* A long thread: the messages that earlier turns of one thread left in the *)
(* chat history, written as save_message writes them, and then turns that   *)
(* ask the model with the history of the thread in the prompt               *)

MaxThreadMessages == 21
MaxContextTurns == 2

ContextProfile == "P1"
ContextThread == "t1"
ContextMessages == {MsgCompany, MsgShorter}
ContextLlmOutcomes ==
    {[outcome |-> "ok", text |-> ReplyFullLetter], [outcome |-> "ok", text |-> ReplyChat]}

\* the k-th message of the thread: the user and the assistant take turns
EarlierMessage ==
    /\ mongo
    /\ Len(chat_history) < MaxThreadMessages
    /\ \E k \in {Len(chat_history) + 1} :
           /\ chat_history' =
                  save_message(chat_history, now + 1, ContextProfile, ContextProfile,
                               ContextThread,
                               IF k % 2 = 1 THEN "user" ELSE "assistant",
                               "message " \o ToString(k), {})
           /\ thread_metadata' =
                  update_thread_metadata(thread_metadata, now + 1, ContextProfile,
                                         ContextProfile, ContextThread, "")
    /\ now' = now + 1
    /\ turn' = [NoTurn EXCEPT !.op = "save_message", !.profile_id = ContextProfile,
                              !.thread_id = ContextThread]
    /\ UNCHANGED <<mongo, in_flight, uploaded_files, upload_store, cover_letters, job_descriptions,
                   tokens_issued, requests, response>>
    /\ UNCHANGED auth_vars

Ask ==
    /\ requests < MaxContextTurns
    /\ \E message \in ContextMessages, dt \in TimeSteps :
           ChatRequest(SessionOf(ContextProfile),
                       [message |-> message, threadId |-> ContextThread,
                        fileIds |-> <<>>],
                       dt, ContextLlmOutcomes)
    /\ UNCHANGED auth_vars

ContextNext == EarlierMessage \/ Ask

ContextSpec == Init /\ [][ContextNext]_vars

-----------------------------------------------------------------------------
(* utils/placeholders.py applied to texts: a text of up to MaxPieces pieces *)
(* is given, and the functions of the module are applied to it              *)

MaxPieces == 3

\* what a letter is made of: placeholders in several spellings, the date
\* token, and plain text
TextPieces ==
    {"[Address]", "[address]", "[ Address ]", "[Company Name]", "[date]", "[DATE]",
     "Dear team, ", " "}

RECURSIVE TextsOf(_)
TextsOf(pieces) ==
    IF pieces = 0 THEN {""}
    ELSE TextsOf(pieces - 1) \cup {t \o piece : t \in TextsOf(pieces - 1), piece \in TextPieces}

\* the value a user gives for the address
AddressUpdates == <<<<"address", " 12 Elm St ">>>>

PlaceholderInit ==
    /\ Init
    /\ mongo

\* the functions read and change no store
TextOnly ==
    /\ UNCHANGED <<mongo, in_flight, now, tokens_issued, requests, response>>
    /\ UNCHANGED chat_vars
    /\ UNCHANGED auth_vars

\* the text the functions are applied to
GiveText ==
    /\ turn.op = "none"
    /\ \E text \in TextsOf(MaxPieces) :
           turn' = [NoTurn EXCEPT !.op = "text", !.message = text]
    /\ TextOnly

FindUnknown ==
    /\ turn.op = "text"
    /\ turn' = [turn EXCEPT !.op = "find_unknown",
                            !.result = find_unknown_placeholders(turn.message)]
    /\ TextOnly

FillAddress ==
    /\ turn.op = "text"
    /\ \E updated \in {apply_placeholder_updates(
                           turn.message, AddressUpdates,
                           collect_unknown_placeholder_tokens(turn.message))} :
           turn' = [turn EXCEPT !.op = "apply", !.result = updated.text,
                                !.ok = updated.replaced]
    /\ TextOnly

EnsureDate ==
    /\ turn.op = "text"
    /\ turn' = [turn EXCEPT !.op = "ensure_date",
                            !.result = ensure_cover_letter_date(turn.message)]
    /\ TextOnly

EnsureDateAgain ==
    /\ turn.op = "ensure_date"
    /\ turn' = [turn EXCEPT !.op = "ensure_date_again",
                            !.again = ensure_cover_letter_date(turn.result)]
    /\ TextOnly

PlaceholderNext == GiveText \/ FindUnknown \/ FillAddress \/ EnsureDate \/ EnsureDateAgain

PlaceholderSpec == PlaceholderInit /\ [][PlaceholderNext]_vars

-----------------------------------------------------------------------------
(* Two chat turns in one thread at the same time.  The development server   *)
(* (app.py: app.run) serves each request on a thread of its own, and the    *)
(* threads share storage.cover_letters.  A turn that fills a placeholder    *)
(* reads the active draft, computes the new text and calls                  *)
(* save_cover_letter, which assigns the fields of the stored record one     *)
(* statement after the other (letter_service.py 117-137); another thread    *)
(* can run between any two statements                                       *)

RaceProfile == "P1"
RaceThread == "t1"

RaceDraft == "[Your Name]\n[date]\n\nDear [Company Name] team,\nI am glad to apply."

MsgName == "your name: Alex Doe"
RaceMessages == {MsgName, MsgCompany}

\* the fields of the record `letter_id` that a statement assigns
AssignField(letters, letter_id, field, value) ==
    [i \in 1..Len(letters) |->
        IF letters[i].id = letter_id THEN [letters[i] EXCEPT ![field] = value]
        ELSE letters[i]]

RaceFrame ==
    /\ UNCHANGED <<mongo, uploaded_files, upload_store, job_descriptions, chat_history,
                   thread_metadata, requests, turn, response>>
    /\ UNCHANGED auth_vars

\* an earlier turn stored the draft of the thread
FirstDraft ==
    /\ cover_letters = <<>>
    /\ \E saved \in {store_cover_letter(cover_letters, tokens_issued, now + 1,
                                        RaceProfile, RaceThread, RaceDraft)} :
           /\ cover_letters' = saved.letters
           /\ tokens_issued' = saved.issued
    /\ now' = now + 1
    /\ UNCHANGED in_flight
    /\ RaceFrame

\* chat.py 849-860 and letter_service.py 112-118: the turn reads the active
\* draft, applies the values of its message, and enters save_cover_letter
\* with the id of the draft
BeginFill ==
    /\ \E w \in RaceWriters, message \in RaceMessages :
       \E active \in {latest_cover_letter_for_thread(cover_letters, RaceProfile,
                                                     RaceThread)} :
       \E tokens \in {collect_unknown_placeholder_tokens(active.text)} :
       \E updated \in {apply_placeholder_updates(
                           active.text,
                           parse_placeholder_updates(message, tokens.keys, TRUE),
                           tokens)} :
           /\ in_flight[w].pc = "idle"
           /\ active # NoLetter
           /\ updated.replaced
           /\ in_flight' =
                  [in_flight EXCEPT
                      ![w] = [pc |-> "text", letter_id |-> active.id,
                              text |-> ensure_cover_letter_date(updated.text),
                              header_line |->
                                  first_nonempty_line(
                                      ensure_cover_letter_date(updated.text)),
                              timestamp |-> now + 1,
                              thread_id |-> normalize_thread_id(RaceThread)]]
    /\ now' = now + 1
    /\ UNCHANGED <<cover_letters, tokens_issued>>
    /\ RaceFrame

\* record["text"] = formatted
WriteText ==
    /\ \E w \in RaceWriters :
           /\ in_flight[w].pc = "text"
           /\ cover_letters' = AssignField(cover_letters, in_flight[w].letter_id,
                                           "text", in_flight[w].text)
           /\ in_flight' = [in_flight EXCEPT ![w].pc = "updated_at"]
    /\ UNCHANGED <<now, tokens_issued>>
    /\ RaceFrame

\* record["updated_at"] = timestamp
WriteUpdatedAt ==
    /\ \E w \in RaceWriters :
           /\ in_flight[w].pc = "updated_at"
           /\ cover_letters' = AssignField(cover_letters, in_flight[w].letter_id,
                                           "updated_at", in_flight[w].timestamp)
           /\ in_flight' = [in_flight EXCEPT ![w].pc = "thread_id"]
    /\ UNCHANGED <<now, tokens_issued>>
    /\ RaceFrame

\* record["thread_id"] = normalized_thread
WriteThreadId ==
    /\ \E w \in RaceWriters :
           /\ in_flight[w].pc = "thread_id"
           /\ cover_letters' = AssignField(cover_letters, in_flight[w].letter_id,
                                           "thread_id", in_flight[w].thread_id)
           /\ in_flight' = [in_flight EXCEPT ![w].pc = "header_date"]
    /\ UNCHANGED <<now, tokens_issued>>
    /\ RaceFrame

\* record["header_date"] = header_line, and the turn returns
WriteHeaderDate ==
    /\ \E w \in RaceWriters :
           /\ in_flight[w].pc = "header_date"
           /\ cover_letters' = AssignField(cover_letters, in_flight[w].letter_id,
                                           "header_date", in_flight[w].header_line)
           /\ in_flight' = [in_flight EXCEPT ![w].pc = "done"]
    /\ UNCHANGED <<now, tokens_issued>>
    /\ RaceFrame

RaceNext ==
    FirstDraft \/ BeginFill \/ WriteText \/ WriteUpdatedAt \/ WriteThreadId \/ WriteHeaderDate

RaceSpec == Init /\ [][RaceNext]_vars

-----------------------------------------------------------------------------
(* Turns of one thread whose drafts have one or two outstanding             *)
(* placeholders, answered by messages with and without a key                *)

MaxFillTurns == 3

FillMessages == {MsgDraftLetter, MsgShorter, MsgCityStateZip, MsgCompany, MsgPlainValue}
FillThreadIds == {"t1"}
FillLlmOutcomes ==
    {[outcome |-> "ok", text |-> ReplyOneField], [outcome |-> "ok", text |-> ReplyLetter],
     [outcome |-> "unavailable", text |-> ""]}

FillTurn ==
    /\ requests < MaxFillTurns
    /\ UNCHANGED auth_vars
    /\ \E p \in Profiles, message \in FillMessages, threadId \in FillThreadIds,
          dt \in TimeSteps :
           ChatRequest(SessionOf(p),
                       [message |-> message, threadId |-> threadId, fileIds |-> <<>>],
                       dt, FillLlmOutcomes)

FillSpec == Init /\ [][FillTurn]_vars

-----------------------------------------------------------------------------
(* The files and drafts of two workspaces: routes/uploads.py, the chat      *)
(* route with fileIds, and the PDF export, called by either workspace with  *)
(* the ids of both.  A restart of the process empties the in-memory dicts   *)
(* of storage.py and leaves the database as it is                           *)

MaxFileCalls == 3
MaxFileTokens == 2

FileProfiles == {"P1", "P2"}
FileChoices == {file \in UploadChoices : file.text # ""}
FileNames == {"resume.pdf", "cv.pdf"}
FileMessages == {MsgDraftLetter}
FileThreadIds == {"t1"}
FileLlmOutcomes == {[outcome |-> "ok", text |-> ReplyFullLetter]}

\* the file ids a client can name: those of the files on record, and one
\* that was never issued
KnownFileIds ==
    {uploaded_files[i].id : i \in 1..Len(uploaded_files)}
    \cup {upload_store[i].id : i \in 1..Len(upload_store)} \cup {"file_x"}

KnownLetterIds == {cover_letters[i].id : i \in 1..Len(cover_letters)} \cup {"letter_x"}

FilesFrame ==
    /\ UNCHANGED <<mongo, in_flight, now, cover_letters, job_descriptions, chat_history,
                   thread_metadata, tokens_issued>>
    /\ UNCHANGED auth_vars

\* GET /api/uploads
list_uploaded_files(session) ==
    \E synced \in {SyncUploads(uploaded_files, upload_store, session.profile_id)} :
    \E files \in {get_uploads_for_profile(synced, session.profile_id)} :
        /\ uploaded_files' = synced
        /\ turn' = [NoTurn EXCEPT !.op = "list_uploads", !.profile_id = session.profile_id]
        /\ response' = [NoResponse EXCEPT
                           !.status = 200,
                           !.files = [i \in 1..Len(files) |-> files[i].id]]
        /\ UNCHANGED upload_store

\* GET /api/uploads/<file_id>
get_uploaded_file(session, file_id) ==
    \E cached \in {FileById(uploaded_files, file_id)} :
    \E mongo_record \in
           {IF (cached = NoUpload \/ cached.profile_id # session.profile_id) /\ mongo
            THEN get_upload_by_id(upload_store, session.profile_id, file_id)
            ELSE NoUpload} :
    \E record \in {IF mongo_record # NoUpload THEN mongo_record ELSE cached} :
        /\ uploaded_files' = IF mongo_record # NoUpload
                             THEN SetFile(uploaded_files, mongo_record)
                             ELSE uploaded_files
        /\ UNCHANGED upload_store
        /\ IF record = NoUpload \/ record.profile_id # session.profile_id
           THEN /\ turn' = [NoTurn EXCEPT !.op = "get_upload",
                                          !.profile_id = session.profile_id,
                                          !.file_id = file_id]
                /\ response' = [NoResponse EXCEPT !.status = 404,
                                                  !.error = "File not found."]
           ELSE /\ turn' = [NoTurn EXCEPT !.op = "get_upload",
                                          !.profile_id = session.profile_id,
                                          !.file_id = file_id, !.ok = TRUE,
                                          !.upload = record]
                /\ response' = [NoResponse EXCEPT !.status = 200,
                                                  !.files = <<record.id>>]

\* DELETE /api/uploads/<file_id>
delete_uploaded_file(session, file_id) ==
    \E record \in {FileById(uploaded_files, file_id)} :
        IF record = NoUpload \/ record.profile_id # session.profile_id
        THEN /\ turn' = [NoTurn EXCEPT !.op = "delete_upload",
                                       !.profile_id = session.profile_id,
                                       !.file_id = file_id]
             /\ response' = [NoResponse EXCEPT !.status = 404,
                                               !.error = "File not found."]
             /\ UNCHANGED <<uploaded_files, upload_store>>
        ELSE /\ uploaded_files' = PopFile(uploaded_files, file_id)
             /\ upload_store' = IF mongo
                                THEN delete_upload(upload_store, session.profile_id, file_id)
                                ELSE upload_store
             /\ turn' = [NoTurn EXCEPT !.op = "delete_upload",
                                       !.profile_id = session.profile_id,
                                       !.file_id = file_id, !.ok = TRUE]
             /\ response' = [NoResponse EXCEPT !.status = 200]

FilesUpload ==
    /\ tokens_issued < MaxFileTokens
    /\ \E p \in FileProfiles, file \in FileChoices :
           upload_files(SessionOf(p), file, 1)

ListFiles ==
    /\ requests < MaxFileCalls
    /\ \E p \in FileProfiles : list_uploaded_files(SessionOf(p))
    /\ requests' = requests + 1
    /\ FilesFrame

GetFile ==
    /\ requests < MaxFileCalls
    /\ \E p \in FileProfiles, file_id \in KnownFileIds :
           get_uploaded_file(SessionOf(p), file_id)
    /\ requests' = requests + 1
    /\ FilesFrame

DeleteFile ==
    /\ requests < MaxFileCalls
    /\ \E p \in FileProfiles, file_id \in KnownFileIds :
           delete_uploaded_file(SessionOf(p), file_id)
    /\ requests' = requests + 1
    /\ FilesFrame

\* upload_service.save_upload called again for a file on record, under
\* another name
SaveUploadAgain ==
    /\ requests < MaxFileCalls
    /\ mongo
    /\ \E i \in 1..Len(upload_store), name \in FileNames :
           /\ upload_store' = save_upload(upload_store,
                                          [upload_store[i] EXCEPT !.name = name])
           /\ turn' = [NoTurn EXCEPT !.op = "save_upload",
                                     !.profile_id = upload_store[i].profile_id,
                                     !.file_id = upload_store[i].id]
    /\ requests' = requests + 1
    /\ response' = NoResponse
    /\ UNCHANGED uploaded_files
    /\ FilesFrame

FilesChat ==
    /\ requests < MaxFileCalls
    /\ UNCHANGED auth_vars
    /\ \E p \in FileProfiles, message \in FileMessages, threadId \in FileThreadIds,
          file_id \in KnownFileIds :
           ChatRequest(SessionOf(p),
                       [message |-> message, threadId |-> threadId,
                        fileIds |-> <<file_id>>],
                       1, FileLlmOutcomes)

FilesExport ==
    /\ requests < MaxFileCalls
    /\ \E p \in FileProfiles, letter_id \in KnownLetterIds,
          render \in {"bytes", NoRender} :
           generate_cover_letter_pdf(SessionOf(p), letter_id, render)

\* the process is started again: storage.py's dicts are empty
Restart ==
    /\ uploaded_files # <<>> \/ cover_letters # <<>>
    /\ uploaded_files' = <<>>
    /\ cover_letters' = <<>>
    /\ job_descriptions' = <<>>
    /\ pending_codes' = <<>>
    /\ sessions' = <<>>
    /\ turn' = [NoTurn EXCEPT !.op = "restart"]
    /\ response' = NoResponse
    /\ UNCHANGED <<mongo, in_flight, now, upload_store, chat_history, thread_metadata,
                   tokens_issued, requests, verification_codes, session_store>>

FilesNext ==
    \/ FilesUpload \/ ListFiles \/ GetFile \/ DeleteFile \/ SaveUploadAgain
    \/ FilesChat \/ FilesExport \/ Restart

FilesSpec == Init /\ [][FilesNext]_vars

-----------------------------------------------------------------------------
(* Pasted job postings: one whose signals are "about the role" and          *)
(* "responsibilities", one whose signals are "responsibilities" and         *)
(* "requirements"                                                           *)

MaxPostingTurns == 2

PostingMessages == {MsgJobPosting, MsgRequirementsPosting}
PostingLlmOutcomes ==
    {[outcome |-> "ok", text |-> ReplyChat], [outcome |-> "ok", text |-> ReplyFullLetter],
     [outcome |-> "unavailable", text |-> ""]}

PostingTurn ==
    /\ requests < MaxPostingTurns
    /\ UNCHANGED auth_vars
    /\ \E p \in Profiles, message \in PostingMessages, threadId \in ThreadIds,
          dt \in TimeSteps :
           ChatRequest(SessionOf(p),
                       [message |-> message, threadId |-> threadId, fileIds |-> <<>>],
                       dt, PostingLlmOutcomes)

PostingSpec == Init /\ [][PostingTurn]_vars

-----------------------------------------------------------------------------
(* The Letter Store on its own: drafts are created by store_cover_letter    *)
(* and updated in place by save_cover_letter, one call after the other.     *)
(* now_millis() has the resolution of a millisecond, so two calls can read  *)
(* the same time                                                            *)

MaxSaves == 3

DraftProfiles == {"P1", "P2"}
DraftThreadIds == {"", "t1"}
DraftTexts == {"", " \n", "\n [Date]\nDear [Company Name] team, [DATE]", "Dear team,"}
DraftTimeSteps == {0, 1}

DraftFrame ==
    /\ UNCHANGED <<mongo, in_flight, uploaded_files, upload_store, job_descriptions,
                   chat_history, thread_metadata, response>>
    /\ UNCHANGED auth_vars

\* letter_service.store_cover_letter(profile_id, thread_id, text)
StoreDraft ==
    /\ requests < MaxSaves
    /\ \E profile_id \in DraftProfiles, thread_id \in DraftThreadIds, text \in DraftTexts,
          dt \in DraftTimeSteps :
       \E saved \in {store_cover_letter(cover_letters, tokens_issued, now + dt,
                                        profile_id, thread_id, text)} :
           /\ cover_letters' = saved.letters
           /\ tokens_issued' = saved.issued
           /\ now' = now + dt
           /\ turn' = [NoTurn EXCEPT !.op = "store_cover_letter",
                                     !.profile_id = profile_id,
                                     !.thread_id = thread_id,
                                     !.letter_id = saved.letter_id]
    /\ requests' = requests + 1
    /\ DraftFrame

\* letter_service.save_cover_letter(profile_id, thread_id, text, letter_id)
\* with the id of the active draft of the thread, as the chat route calls it
UpdateDraft ==
    /\ requests < MaxSaves
    /\ \E profile_id \in DraftProfiles, thread_id \in DraftThreadIds, text \in DraftTexts,
          dt \in DraftTimeSteps :
       \E active \in {latest_cover_letter_for_thread(cover_letters, profile_id,
                                                     thread_id)} :
       \E saved \in {save_cover_letter(cover_letters, tokens_issued, now + dt,
                                       profile_id, thread_id, text, active.id)} :
           /\ active # NoLetter
           /\ cover_letters' = saved.letters
           /\ tokens_issued' = saved.issued
           /\ now' = now + dt
           /\ turn' = [NoTurn EXCEPT !.op = "save_cover_letter",
                                     !.profile_id = profile_id,
                                     !.thread_id = thread_id,
                                     !.letter_id = saved.letter_id]
    /\ requests' = requests + 1
    /\ DraftFrame

DraftNext == StoreDraft \/ UpdateDraft

DraftSpec == Init /\ [][DraftNext]_vars

-----------------------------------------------------------------------------
(* The properties *)

\* the turn on record is a chat turn that passed the check of the message
ChatTurn == turn.op = "chat" /\ turn.branch # "rejected"

\* a step that handles such a chat turn
ChatStep == requests' = requests + 1 /\ ChatTurn'

\* what the classifiers say of the turn's message
TurnFacts == Facts[turn.message]

\* the branch the fixed order gives a turn t, from the state the turn found
FirstBranch(t) ==
    LET f == Facts[t.message]
        tokens == collect_unknown_placeholder_tokens(t.active_letter.text)
        adjustment == t.active_letter # NoLetter /\ f.looks_like_adjustment
    IN  IF f.pdf_request # "" THEN "pdf"
        ELSE IF f.resume_review_request THEN "review"
        ELSE IF /\ f.is_job_description
                /\ ~f.has_request_intent /\ ~f.requests_cover_letter /\ ~f.requests_resume
             THEN "job"
        ELSE IF /\ ~t.profile_has_uploads
                /\ \/ f.requests_resume
                   \/ f.requests_cover_letter /\ t.active_letter = NoLetter
             THEN "guard"
        ELSE IF /\ t.active_letter # NoLetter
                /\ apply_placeholder_updates(
                       t.active_letter.text,
                       parse_placeholder_updates(t.message, tokens.keys, ~adjustment),
                       tokens).replaced
             THEN "fill"
        ELSE IF adjustment THEN "adjust"
        ELSE "draft"

\* C1: every chat turn is handled by the first branch, in the order PDF
\* export, resume review, job-description capture, missing-context guard,
\* placeholder fill, adjustment, fresh drafting, whose guard holds, and a turn
\* of an earlier branch has no effect of a later one: a PDF, review or guard
\* turn stores no job description and leaves the drafts as they are, a
\* capture turn leaves the drafts as they are, a fill or adjustment turn
\* creates no draft
FirstBranchHandlesTurn ==
    [][ChatStep =>
           /\ turn'.branch = FirstBranch(turn')
           /\ turn'.branch \in {"pdf", "review"} => job_descriptions' = job_descriptions
           /\ turn'.branch \in {"pdf", "review", "job", "guard"} =>
                  cover_letters' = cover_letters
           /\ turn'.branch \in {"fill", "adjust"} =>
                  Len(cover_letters') = Len(cover_letters)]_vars

\* a PDF turn whose message is a resume-review request as well
PdfTurnBeforeReview ==
    /\ ChatTurn
    /\ turn.branch = "pdf"
    /\ TurnFacts.resume_review_request
    /\ turn.step = "resume_review"

\* the turn on record asked for the PDF of a draft that exists: a chat turn
\* for a cover-letter PDF, or POST /api/cover-letters/<id>/pdf
PdfOfDraftAsked ==
    /\ \/ ChatTurn /\ turn.branch = "pdf" /\ TurnFacts.pdf_request = "cover_letter"
       \/ turn.op = "export"
    /\ turn.active_letter # NoLetter

\* C2: no PDF is produced for a draft whose text has an unknown placeholder:
\* a response carries PDF bytes or a download only for a draft without one,
\* and a PDF request for a draft with one is answered, in the chat and by
\* POST /api/cover-letters/<id>/pdf, with the list of the missing fields
NoPdfWithUnknownPlaceholders ==
    /\ (response.pdf \/ response.downloads # <<>>) =>
           /\ turn.active_letter # NoLetter
           /\ find_unknown_placeholders(turn.active_letter.text) = <<>>
    /\ (PdfOfDraftAsked /\ find_unknown_placeholders(turn.active_letter.text) # <<>>) =>
           /\ ~response.pdf
           /\ response.downloads = <<>>
           /\ IF turn.op = "export"
              THEN response.missingFields
                       = find_unknown_placeholders(turn.active_letter.text)
              ELSE Contains(response.reply,
                            Join(find_unknown_placeholders(turn.active_letter.text), ", "))

\* a chat turn asked for the PDF of a draft that has placeholders, and was
\* answered with the fields and no download
PdfRefusedForMissingFields ==
    /\ ChatTurn
    /\ PdfOfDraftAsked
    /\ find_unknown_placeholders(turn.active_letter.text) # <<>>
    /\ turn.step = "missing_fields"
    /\ response.downloads = <<>>

\* the last message of the history is an assistant reply with
\* resume_review=true
ReviewPersisted ==
    /\ chat_history # <<>>
    /\ chat_history[Len(chat_history)].role = "assistant"
    /\ "resume_review" \in chat_history[Len(chat_history)].metadata

\* C3: after a turn whose resume review was persisted with resume_review=true,
\* a next turn in the same thread (explicit or default) that asks for a
\* cover-letter PDF while the thread has no draft is answered with the
\* redirect, with no download, no draft and no model call
PdfRedirectedAfterReview ==
    [][(/\ ChatTurn
        /\ turn.step = "resume_review"
        /\ ReviewPersisted
        /\ ChatStep
        /\ turn'.profile_id = turn.profile_id
        /\ turn'.thread_id = turn.thread_id
        /\ TurnFacts'.pdf_request = "cover_letter"
        /\ turn'.active_letter = NoLetter)
       => /\ turn'.step = "blocked_in_resume_mode"
          /\ response'.downloads = <<>>
          /\ cover_letters' = cover_letters
          /\ turn'.llm_calls = 0]_vars

\* the most recent assistant message of the thread carries resume_review=true
LastAssistantReviewed(history, profile_id, thread_id) ==
    LET said == SelectSeq(history,
                    LAMBDA msg :
                        /\ msg.profile_id = profile_id
                        /\ msg.thread_id = normalize_thread_id(thread_id)
                        /\ msg.role = "assistant")
    IN  said # <<>> /\ "resume_review" \in said[Len(said)].metadata

\* C4: at the start of every turn resume-advice mode is set exactly when the
\* most recent assistant message of the thread's history carries
\* resume_review=true, however long the history is
ModeFollowsLastAssistant ==
    [][ChatStep =>
           (turn'.in_resume_advice_mode
                <=> LastAssistantReviewed(chat_history, turn'.profile_id,
                                          turn'.thread_id))]_vars

\* the values a user gives for a placeholder
FillValues == {"Acme Corp", "Boston, MA 02101"}

\* the message of turn t is 'K: v' for the key with index k of its draft
NamesKey(t, keys, k, v) == t.message = keys[k] \o ": " \o v

\* C5: when the active draft has an unknown placeholder with key K and the
\* message is 'K: v' (and branches 1-4 do not take the turn), the same record
\* is updated and no record added, no token of K is left in its text, the
\* reply is the updated letter and its follow-up note, and the model is not
\* called
KeyedValueFillsDraft ==
    [][\A v \in FillValues :
        LET found == collect_unknown_placeholder_tokens(turn'.active_letter.text)
            updated == LetterById(cover_letters', turn'.active_letter.id)
        IN  \A k \in 1..Len(found.keys) :
                (/\ ChatStep
                 /\ turn'.active_letter # NoLetter
                 /\ NamesKey(turn', found.keys, k, v)
                 /\ turn'.branch \notin {"pdf", "review", "job", "guard"})
                => /\ turn'.branch = "fill"
                   /\ turn'.llm_calls = 0
                   /\ turn'.letter_id = turn'.active_letter.id
                   /\ Len(cover_letters') = Len(cover_letters)
                   /\ \A i \in 1..Len(found.tokens[found.keys[k]]) :
                          ~Contains(updated.text, found.tokens[found.keys[k]][i])
                   /\ Contains(updated.text, v)
                   /\ response'.reply
                          = updated.text
                            \o letter_follow_up_text(
                                   find_unknown_placeholders(updated.text))]_vars

\* C6: with no uploads and no active draft, a message for which
\* should_draft_cover_letter is true (and that is no PDF request, review
\* request or job description) is refused by the guard and leaves the thread
\* without a draft
NoBlindDraft ==
    (/\ ChatTurn
     /\ ~turn.profile_has_uploads
     /\ turn.active_letter = NoLetter
     /\ TurnFacts.should_draft[turn.has_attachments]
     /\ turn.branch \notin {"pdf", "review", "job"})
    => /\ turn.branch = "guard"
       /\ turn.letter_id = ""
       /\ latest_cover_letter_for_thread(cover_letters, turn.profile_id, turn.thread_id)
              = NoLetter

\* C7: a (profile, thread) never holds more than one draft record
OneDraftPerThread ==
    \A i, j \in 1..Len(cover_letters) :
        (/\ cover_letters[i].profile_id = cover_letters[j].profile_id
         /\ cover_letters[i].thread_id = cover_letters[j].thread_id)
        => i = j

\* C8: a message that looks like a job description and carries no drafting,
\* cover-letter or resume intent, and is no PDF or review request, is stored
\* as the job description of the (profile, thread); the reply asks what to do
\* next, the model is not called and the drafts stay as they are
JobDescriptionCaptured ==
    [][(/\ ChatStep
        /\ TurnFacts'.is_job_description
        /\ ~TurnFacts'.has_request_intent
        /\ ~TurnFacts'.requests_cover_letter
        /\ ~TurnFacts'.requests_resume
        /\ TurnFacts'.pdf_request = ""
        /\ ~TurnFacts'.resume_review_request)
       => /\ turn'.branch = "job"
          /\ latest_job_description_for_thread(job_descriptions', turn'.profile_id,
                                               turn'.thread_id).text
                 = Slice(collapse(turn'.message), 1, JOB_DESCRIPTION_MAX_LENGTH)
          /\ Contains(response'.reply, "What would you like me to help you with?")
          /\ turn'.llm_calls = 0
          /\ cover_letters' = cover_letters]_vars

\* a job posting was captured in a thread that holds a draft
JobDescriptionCapturedBesideDraft ==
    /\ ChatTurn
    /\ turn.branch = "job"
    /\ turn.active_letter # NoLetter
    /\ latest_job_description_for_thread(job_descriptions, turn.profile_id,
                                         turn.thread_id) # NoJob

\* C9: the job-description store has one slot per (profile, normalized
\* thread): a call with a non-blank text leaves in the slot of its key that
\* text, collapsed and cut to JOB_DESCRIPTION_MAX_LENGTH characters, with an
\* excerpt of at most 600; a call with a blank text changes no slot; and no
\* call changes the slot of another (profile, normalized thread)
JobSlotPerProfileAndThread ==
    [][(requests' = requests + 1 /\ turn'.op = "store_job") =>
           \A profile_id \in JobProfiles, thread_id \in JobThreadIds :
               LET before == latest_job_description_for_thread(
                                 job_descriptions, profile_id, thread_id)
                   after == latest_job_description_for_thread(
                                job_descriptions', profile_id, thread_id)
               IN  IF /\ profile_id = turn'.profile_id
                      /\ normalize_thread_id(thread_id)
                             = normalize_thread_id(turn'.thread_id)
                      /\ collapse(turn'.message) # ""
                   THEN /\ after.text = Slice(collapse(turn'.message), 1,
                                              JOB_DESCRIPTION_MAX_LENGTH)
                        /\ Len(after.excerpt) <= 600
                   ELSE after = before]_vars

\* C10: where the model is asked, the class of the failure decides the
\* outcome: 200 with an error flag when the model is unavailable, 502 on an
\* upstream API error, 500 on any other error
FailureClassDecidesStatus ==
    ChatTurn =>
        /\ turn.llm = "unavailable" => response.status = 200 /\ response.error # ""
        /\ turn.llm = "api_error" => response.status = 502
        /\ turn.llm = "error" => response.status = 500

\* C11: the number of model calls of a chat turn is bounded by its branch:
\* none in a cover-letter PDF turn, a job-description capture, a refusal of
\* the missing-context guard and a placeholder fill, at most one in any other
\* turn, also when the call fails
CallsBoundedByBranch ==
    ChatTurn =>
        /\ turn.llm_calls <= 1
        /\ (\/ turn.branch \in {"job", "guard", "fill"}
            \/ turn.branch = "pdf" /\ TurnFacts.pdf_request = "cover_letter")
           => turn.llm_calls = 0 /\ turn.llm = "none"

\* a turn whose only call of the model failed
FailedCallNotRetried ==
    /\ ChatTurn
    /\ turn.llm \in {"api_error", "error"}
    /\ turn.llm_calls = 1
    /\ response.status \in {500, 502}

\* C12: when rendering the PDF of a draft fails, in the chat and on
\* POST /api/cover-letters/<id>/pdf, the response is an error that carries
\* the cause, it has no download and no PDF bytes, and the drafts are as
\* they were
RenderFailureSurfaced ==
    [][(requests' = requests + 1 /\ turn'.step = "pdf_error")
       => /\ response'.error # ""
          /\ \/ Contains(response'.reply, render_error_message)
             \/ Contains(response'.error, render_error_message)
          /\ ~response'.pdf
          /\ response'.downloads = <<>>
          /\ cover_letters' = cover_letters]_vars

\* C13: a cover-letter PDF request in a thread without a draft, outside
\* resume-advice mode, is answered by asking for the job description and the
\* company; the reply has no download and no coverLetterId, no draft is
\* created and the model is not called
PdfWithoutDraftAsksForJob ==
    [][(/\ ChatStep
        /\ TurnFacts'.pdf_request = "cover_letter"
        /\ turn'.active_letter = NoLetter
        /\ ~turn'.in_resume_advice_mode)
       => /\ turn'.step = "needs_draft"
          /\ Contains(response'.reply, "share the job description and company name")
          /\ response'.status = 200
          /\ response'.downloads = <<>>
          /\ response'.coverLetterId = ""
          /\ cover_letters' = cover_letters
          /\ turn'.llm_calls = 0]_vars

\* "create pdf" was sent to a thread without a draft by a profile that has an
\* upload
PdfAskedBeforeAnyDraft ==
    /\ ChatTurn
    /\ turn.message = MsgCreatePdf
    /\ turn.active_letter = NoLetter
    /\ turn.profile_has_uploads
    /\ turn.step = "needs_draft"

\* the token of the request has a session, in memory or in the persistent
\* store, that has not expired
HasLiveSession(token) ==
    \/ token \in DOMAIN sessions /\ sessions[token].expires_at > now
    \/ mongo /\ token \in DOMAIN session_store /\ session_store[token].expires_at > now

\* C14: a chat request without a valid bearer token is rejected with 401, one
\* with a valid token and a missing or blank message with 400, and a
\* rejected request leaves the drafts, the job descriptions, the uploads and
\* the chat history as they were
RejectedChatLeavesStores ==
    [][(requests' = requests + 1 /\ turn'.op \in {"chat", "chat_denied"})
       => /\ ~HasLiveSession(turn'.token) => response'.status = 401
          /\ (HasLiveSession(turn'.token) /\ strip(turn'.message) = "")
                 => response'.status = 400
          /\ response'.status \in {400, 401} => UNCHANGED chat_vars]_vars

\* a blank message was rejected in a workspace that holds a draft
BlankMessageRejectedBesideDraft ==
    /\ turn.op = "chat"
    /\ turn.branch = "rejected"
    /\ response.status = 400
    /\ cover_letters # <<>>

\* the session tokens issued so far
IssuedTokens == {generate_token("sess", k - 1) : k \in 1..tokens_issued}

\* the step is a request that passed require_session
Authenticated ==
    /\ requests' = requests + 1
    /\ \/ turn'.op = "chat"
       \/ turn'.op = "session" /\ turn'.ok

Unexpired(records, current) ==
    {k \in DOMAIN records : records[k].expires_at > current}

\* the step is an HTTP request, before which the in-memory sweep ran
HttpRequest ==
    /\ requests' = requests + 1
    /\ turn'.op \in {"request_code", "verify", "session", "chat", "chat_denied"}

\* C17: an expiry sweep removes exactly the expired entries.  After a request
\* the in-memory codes and sessions hold no entry with expires_at <= now, and
\* every entry they held with expires_at > now is still there, unchanged,
\* except the code that the request verified; the cleanup of the persistent
\* store removes every code, used or not, and every session with
\* expires_at <= now, keeps the others unchanged, and reports how many codes
\* and sessions it deleted
SweepRemovesExactlyExpired ==
    [][/\ HttpRequest
          => /\ Unexpired(pending_codes', now) = DOMAIN pending_codes'
             /\ Unexpired(sessions', now) = DOMAIN sessions'
             /\ \A code \in Unexpired(pending_codes, now) :
                    \/ turn'.op = "verify" /\ turn'.code = code
                    \/ /\ code \in DOMAIN pending_codes'
                       /\ turn'.op # "request_code"
                              => pending_codes'[code] = pending_codes[code]
             /\ \A token \in Unexpired(sessions, now) :
                    token \in DOMAIN sessions' /\ sessions'[token] = sessions[token]
       /\ (requests' = requests + 1 /\ turn'.op = "cleanup")
          => /\ DOMAIN verification_codes' = Unexpired(verification_codes, now)
             /\ DOMAIN session_store' = Unexpired(session_store, now)
             /\ \A code \in DOMAIN verification_codes' :
                    verification_codes'[code] = verification_codes[code]
             /\ \A token \in DOMAIN session_store' :
                    session_store'[token] = session_store[token]
             /\ turn'.codes_deleted
                    = Cardinality(DOMAIN verification_codes \ DOMAIN verification_codes')
             /\ turn'.sessions_deleted
                    = Cardinality(DOMAIN session_store \ DOMAIN session_store')]_vars

\* the cleanup deleted an expired code and kept one that had not expired
CleanupDeletedOneKeptOne ==
    /\ turn.op = "cleanup"
    /\ turn.codes_deleted >= 1
    /\ DOMAIN verification_codes # {}

\* thread_id as the history service stores it
StoredThreadId(thread_id) == IF strip(thread_id) = "" THEN "default" ELSE strip(thread_id)

\* the stored messages of a workspace, and of one of its threads
MessagesOf(history, workspace) ==
    {i \in 1..Len(history) : /\ history[i].access_code = workspace[1]
                             /\ history[i].profile_id = workspace[2]}

MessagesIn(history, workspace, thread_id) ==
    {i \in MessagesOf(history, workspace) : history[i].thread_id = thread_id}

\* what GET /api/chat/threads lists for a workspace
ThreadList(workspace) ==
    get_all_threads_for_access_code(chat_history, thread_metadata,
                                    workspace[1], workspace[2])

\* the summaries of a workspace: one per thread with a stored message, latest
\* thread first, each with its number of messages and the time of its last
\* one, titled with the custom title of the thread if it has one and else,
\* if it has a user message that is not blank, with the preview of the first
ThreadListSummarizes(workspace) ==
    LET threads == ThreadList(workspace)
    IN  /\ {threads[i].thread_id : i \in 1..Len(threads)}
               = {chat_history[i].thread_id : i \in MessagesOf(chat_history, workspace)}
        /\ \A i, j \in 1..Len(threads) :
               /\ i # j => threads[i].thread_id # threads[j].thread_id
               /\ i < j => threads[i].last_message_at >= threads[j].last_message_at
        /\ \A i \in 1..Len(threads) :
               LET mine == MessagesIn(chat_history, workspace, threads[i].thread_id)
                   key == <<workspace[1], workspace[2], threads[i].thread_id>>
                   custom == IF key \in DOMAIN thread_metadata
                             THEN thread_metadata[key].title ELSE ""
                   by_user == {m \in mine : chat_history[m].role = "user"}
               IN  /\ threads[i].message_count = Cardinality(mine)
                   /\ \E m \in mine :
                          /\ chat_history[m].timestamp = threads[i].last_message_at
                          /\ \A o \in mine :
                                 chat_history[o].timestamp <= chat_history[m].timestamp
                   /\ custom # "" => threads[i].title = custom
                   /\ (custom = "" /\ by_user # {})
                          => \E m \in by_user :
                                 /\ \A o \in by_user : m <= o
                                 /\ strip(Slice(chat_history[m].content, 1, 60)) # ""
                                        => StartsWith(threads[i].title,
                                               strip(Slice(chat_history[m].content, 1, 60)))
                                           /\ Len(threads[i].title) <= 63

\* C18: get_all_threads_for_access_code returns exactly one summary per
\* thread of the (access_code, profile) that has a stored message, ordered by
\* the time of the latest message, latest first, with the number of messages,
\* titled with the custom title of the thread when one was set and otherwise
\* with a preview of its first user message; saving a message, in any
\* thread, changes no custom title
ThreadsSummarizedOnce ==
    /\ [](\A workspace \in HistoryWorkspaces : ThreadListSummarizes(workspace))
    /\ [][(requests' = requests + 1 /\ turn'.op = "save_message")
          => \A key \in DOMAIN thread_metadata :
                 thread_metadata[key].title # ""
                     => /\ key \in DOMAIN thread_metadata'
                        /\ thread_metadata'[key].title = thread_metadata[key].title]_vars

\* a message was saved in a thread that has a custom title, in a workspace
\* with two threads
SavedIntoTitledThread ==
    /\ turn.op = "save_message"
    /\ <<turn.code, turn.profile_id, StoredThreadId(turn.thread_id)>>
           \in DOMAIN thread_metadata
    /\ thread_metadata[<<turn.code, turn.profile_id,
                         StoredThreadId(turn.thread_id)>>].title \in HistoryTitles
    /\ Len(ThreadList(<<turn.code, turn.profile_id>>)) = 2

\* C19: a message saved with save_message is returned by get_chat_history for
\* the same (access_code, profile, thread), whatever the limit, with its role,
\* content and metadata; the messages are returned oldest first; and after
\* the save the thread has a metadata record
SavedMessageIsReturned ==
    (turn.op = "save_message") =>
        \A limit \in HistoryLimits :
            LET saved == chat_history[Len(chat_history)]
                read == get_chat_history(chat_history, turn.code, turn.profile_id,
                                         turn.thread_id, limit)
            IN  /\ saved.content = turn.message
                /\ \E i \in 1..Len(read) :
                       /\ read[i].role = saved.role
                       /\ read[i].content = saved.content
                       /\ read[i].metadata = saved.metadata
                       /\ read[i].timestamp = saved.timestamp
                /\ \A i, j \in 1..Len(read) :
                       i < j => read[i].timestamp <= read[j].timestamp
                /\ <<turn.code, turn.profile_id, StoredThreadId(turn.thread_id)>>
                       \in DOMAIN thread_metadata

\* C20: delete_thread_history removes every message and the metadata record
\* of the given (access_code, profile, thread) and of no other, returns the
\* number of messages it removed, and leaves the messages and the metadata of
\* every other thread as they were; afterwards get_chat_history for the
\* thread, asked by its stored id, is empty
DeleteRemovesOneThread ==
    [][(requests' = requests + 1 /\ turn'.op = "delete_thread")
       => LET workspace == <<turn'.code, turn'.profile_id>>
              thread == StoredThreadId(turn'.thread_id)
              key == <<turn'.code, turn'.profile_id, thread>>
              doomed == MessagesIn(chat_history, workspace, thread)
          IN  /\ MessagesIn(chat_history', workspace, thread) = {}
              /\ key \notin DOMAIN thread_metadata'
              /\ turn'.deleted = Cardinality(doomed)
              /\ chat_history' = SelectSeq(chat_history,
                                     LAMBDA msg : ~(/\ msg.access_code = workspace[1]
                                                    /\ msg.profile_id = workspace[2]
                                                    /\ msg.thread_id = thread))
              /\ DOMAIN thread_metadata' = DOMAIN thread_metadata \ {key}
              /\ \A k \in DOMAIN thread_metadata' :
                     thread_metadata'[k] = thread_metadata[k]
              /\ \A limit \in HistoryLimits :
                     get_chat_history(chat_history', workspace[1], workspace[2],
                                      thread, limit) = <<>>]_vars

\* a thread with messages was deleted and another thread of the workspace
\* kept its messages
ThreadDeletedBesideAnother ==
    /\ turn.op = "delete_thread"
    /\ turn.deleted >= 1
    /\ MessagesOf(chat_history, <<turn.code, turn.profile_id>>) # {}

\* the priority of an upload as a resume
ResumePriority(record) ==
    IF Contains(lower(record.name), "resume") \/ Contains(lower(record.name), "cv")
    THEN 2
    ELSE IF lower(record.mime_type) = "application/pdf" THEN 1
    ELSE 0

\* the uploads held for a profile
UploadsOf(profile_id) ==
    {uploaded_files[i] : i \in {j \in 1..Len(uploaded_files) :
                                    uploaded_files[j].profile_id = profile_id}}

\* C21: select_resume_upload returns nothing iff the profile has no uploads;
\* otherwise it returns an upload of the profile whose pair (priority,
\* uploaded_at) is lexicographically maximal among the profile's uploads, the
\* priority being 2 for a name with "resume" or "cv", else 1 for a PDF, else
\* 0: no other upload of the profile has a higher priority, or the same
\* priority and a later upload time
ResumeChosenByPriority ==
    (turn.op = "select_resume") =>
        /\ turn.upload = NoUpload <=> UploadsOf(turn.profile_id) = {}
        /\ turn.upload # NoUpload
              => /\ turn.upload \in UploadsOf(turn.profile_id)
                 /\ \A other \in UploadsOf(turn.profile_id) :
                        /\ ResumePriority(other) <= ResumePriority(turn.upload)
                        /\ ResumePriority(other) = ResumePriority(turn.upload)
                               => other.uploaded_at <= turn.upload.uploaded_at

\* the resume chosen was uploaded before a PDF of the profile that has no
\* name signal
EarlierResumeBeatsLaterPdf ==
    /\ turn.op = "select_resume"
    /\ ResumePriority(turn.upload) = 2
    /\ \E other \in UploadsOf(turn.profile_id) :
           /\ ResumePriority(other) = 1
           /\ other.uploaded_at > turn.upload.uploaded_at

\* C22: when the chat history is enabled, a chat turn that returns a reply,
\* whichever branch produced it, appends two messages to the history of its
\* thread: the user's message, and then the assistant's reply as it was
\* returned to the caller
ReplyPersistedAfterMessage ==
    [][(ChatStep /\ mongo /\ response'.reply # "")
       => /\ Len(chat_history') = Len(chat_history) + 2
          /\ SubSeq(chat_history', 1, Len(chat_history)) = chat_history
          /\ chat_history'[Len(chat_history) + 1].role = "user"
          /\ chat_history'[Len(chat_history) + 1].content = strip(turn'.message)
          /\ chat_history'[Len(chat_history) + 2].role = "assistant"
          /\ chat_history'[Len(chat_history) + 2].content = response'.reply
          /\ \A i \in {Len(chat_history) + 1, Len(chat_history) + 2} :
                 /\ chat_history'[i].profile_id = turn'.profile_id
                 /\ chat_history'[i].thread_id = StoredThreadId(turn'.thread_id)]_vars

\* the last `count` elements of a sequence, or all of it
LastOf(seq, count) ==
    SubSeq(seq, IF Len(seq) > count THEN Len(seq) - count + 1 ELSE 1, Len(seq))

\* the messages of the turn's thread when the model is asked: those stored
\* before the turn and the user's message of the turn
ThreadWhenAsked ==
    SelectSeq(SubSeq(chat_history', 1, Len(chat_history) + 1),
              LAMBDA msg : /\ msg.access_code = turn'.profile_id
                           /\ msg.profile_id = turn'.profile_id
                           /\ msg.thread_id = StoredThreadId(turn'.thread_id))

\* C23: the conversation history passed to the language model in an
\* adjustment or drafting turn is the most recent messages of the thread, at
\* most the last 10, oldest first, whatever the number of messages stored
\* for the thread
PromptHoldsLatestMessages ==
    [][(/\ ChatStep
        /\ mongo
        /\ turn'.thread_id # ""
        /\ turn'.branch \in {"adjust", "draft"}
        /\ turn'.llm_calls > 0)
       => LET latest == LastOf(ThreadWhenAsked, 10)
          IN  /\ Len(turn'.conversation) = Len(latest)
              /\ \A i \in 1..Len(latest) :
                     turn'.conversation[i]
                         = upper(latest[i].role) \o ": " \o Slice(latest[i].content, 1, 500)]_vars

\* the bracketed spans of a text, left to right, and the interior of a span,
\* trimmed and case-folded
BracketedSpans(text) == PLACEHOLDER_TOKEN_PATTERN(text)

FoldedKey(span) == lower(strip(SubSeq(span, 2, Len(span) - 1)))

\* C24: find_unknown_placeholders(text) returns the sorted, duplicate-free
\* list of the normalized keys (interior trimmed and case-folded) of the
\* bracketed spans of the text other than the date token: it never reports
\* "date" in any letter case, it is empty for a text without brackets, and
\* [Address] and [address] are reported as one key
UnknownKeysAreFolded ==
    (turn.op = "find_unknown") =>
        LET spans == BracketedSpans(turn.message)
            keys == {FoldedKey(spans[i]) : i \in 1..Len(spans)} \ {"date", ""}
            found == turn.result
        IN  /\ {found[i] : i \in 1..Len(found)} = keys
            /\ \A i, j \in 1..Len(found) : i < j => StrLess(found[i], found[j])
            /\ \A i \in 1..Len(found) : lower(found[i]) # "date"
            /\ spans = <<>> => found = <<>>

\* the bracketed spans of the text whose key is the given one
SpansOfKey(text, key) ==
    SelectSeq(BracketedSpans(text), LAMBDA span : FoldedKey(span) = key)

RECURSIVE TotalLen(_)
TotalLen(seq) == IF seq = <<>> THEN 0 ELSE Len(Head(seq)) + TotalLen(Tail(seq))

\* C25: for a text in which a placeholder occurs several times, in the same
\* or in different spellings, collect_unknown_placeholder_tokens maps its
\* normalized key to the literal tokens, one per occurrence, and
\* apply_placeholder_updates with a value for the key replaces every
\* occurrence by the value: no token of the key remains, the other text is
\* as it was, and replaced is true
EveryOccurrenceFilled ==
    (turn.op = "apply" /\ Len(SpansOfKey(turn.message, "address")) >= 1) =>
        LET tokens == collect_unknown_placeholder_tokens(turn.message).tokens
            spans == SpansOfKey(turn.message, "address")
            value == strip(AddressUpdates[1][2])
        IN  /\ "address" \in DOMAIN tokens
            /\ tokens["address"] = spans
            /\ \A i \in 1..Len(spans) : Contains(turn.message, spans[i])
            /\ SpansOfKey(turn.result, "address") = <<>>
            /\ Len(turn.result)
                   = Len(turn.message) - TotalLen(spans) + Len(spans) * Len(value)
            /\ Len(BracketedSpans(turn.result))
                   = Len(BracketedSpans(turn.message)) - Len(spans)
            /\ turn.ok

\* the address stood three times in the text, in three spellings, and was
\* filled
ThreeSpellingsFilled ==
    /\ turn.op = "apply"
    /\ turn.ok
    /\ Len(SpansOfKey(turn.message, "address")) = 3
    /\ Cardinality({SpansOfKey(turn.message, "address")[i] : i \in 1..3}) = 3
    /\ turn.result = "12 Elm St12 Elm St12 Elm St"

\* the places of the date token in a text, in any letter case
DateTokensAt(text) ==
    {p \in 1..Len(text) : p + 5 <= Len(text) /\ lower(SubSeq(text, p, p + 5)) = "[date]"}

LastWriterWins ==
    (\A w \in RaceWriters : in_flight[w].pc = "done") =>
        \E w \in RaceWriters :
            LET record == LetterById(cover_letters, in_flight[w].letter_id)
            IN  /\ record.text = in_flight[w].text
                /\ record.header_date = in_flight[w].header_line
                /\ record.updated_at = in_flight[w].timestamp

\* the workspace has a session or a chat message in the database
HasStoredData(code) ==
    \/ \E token \in DOMAIN session_store : session_store[token].profile_id = code
    \/ \E i \in 1..Len(chat_history) : chat_history[i].profile_id = code

PdfOfEitherKindRedirected ==
    [][(/\ ChatStep
        /\ turn'.in_resume_advice_mode
        /\ TurnFacts'.pdf_request \in {"cover_letter", "resume"}
        /\ turn'.active_letter = NoLetter)
       => /\ turn'.step = "blocked_in_resume_mode"
          /\ response'.downloads = <<>>
          /\ turn'.llm_calls = 0]_vars

\* the words of a cover letter: at least 200 characters, a salutation and
\* a closing
LooksLikeLetter(text) ==
    /\ Len(text) >= 200
    /\ ContainsAny(lower(text), {"dear ", "to whom it may concern", "hiring manager"})
    /\ ContainsAny(lower(text), {"sincerely", "regards", "respectfully", "best wishes"})

\* the reply of the turn: what the model said or, when it said nothing, the
\* fallback text
BaseReply(t, has_job_description) ==
    IF strip(t.llm_text) # "" THEN strip(t.llm_text)
    ELSE build_fallback_reply(Facts[t.message].should_draft[t.has_attachments],
                              t.has_attachments, has_job_description)

\* C30: in the fresh-drafting / conversation branch, when the model answers,
\* a draft is stored exactly when drafting was intended or the reply looks
\* like a cover letter; otherwise the reply is returned as it is, with no
\* coverLetterId, and the drafts are unchanged
DraftStoredWhenIntendedOrLetter ==
    [][(/\ ChatStep
        /\ turn'.branch = "draft"
        /\ turn'.llm = "ok"
        /\ turn'.llm_calls = 1)
       => \E has_job_description \in BOOLEAN :
              IF \/ TurnFacts'.should_draft[turn'.has_attachments]
                 \/ LooksLikeLetter(BaseReply(turn', has_job_description))
              THEN /\ Len(cover_letters') = Len(cover_letters) + 1
                   /\ turn'.step = "drafted"
                   /\ response'.coverLetterId = cover_letters'[Len(cover_letters')].id
              ELSE /\ cover_letters' = cover_letters
                   /\ turn'.step = "conversation"
                   /\ response'.coverLetterId = ""
                   /\ response'.reply = BaseReply(turn', has_job_description)]_vars

\* a reply that looks like a letter was stored though drafting was not
\* intended
UnintendedLetterStored ==
    /\ ChatTurn
    /\ turn.branch = "draft" /\ turn.step = "drafted" /\ turn.llm = "ok"
    /\ ~TurnFacts.should_draft[turn.has_attachments]
    /\ LooksLikeLetter(strip(turn.llm_text))
    /\ response.coverLetterId # ""

\* the text the fresh-drafting branch falls back to when the model gave none
FallbackTexts(t) ==
    {IF t.step = "openai_unavailable"
     THEN Join(<<"We hit an issue contacting OpenAI. Please check the server configuration.",
                 "", fallback_text>>, "\n")
     ELSE fallback_text :
        fallback_text \in
            {build_fallback_reply(Facts[t.message].should_draft[t.has_attachments],
                                  t.has_attachments, has_job_description) :
                has_job_description \in BOOLEAN}}

FailedAdjustmentKeepsDraft ==
    [][(/\ ChatStep
        /\ turn'.branch = "adjust"
        /\ turn'.step \in {"openai_unavailable", "api_error", "error"})
       => /\ cover_letters' = cover_letters
          /\ turn'.active_letter # NoLetter
          /\ turn'.active_letter =
                 latest_cover_letter_for_thread(cover_letters', turn'.profile_id,
                                                turn'.thread_id)
          /\ StartsWith(response'.reply, turn'.active_letter.text)
          /\ response'.coverLetterId = turn'.active_letter.id]_vars

\* an adjustment of a draft failed with an unexpected error
AdjustmentFailedUnexpectedly ==
    /\ ChatTurn
    /\ turn.branch = "adjust" /\ turn.step = "error"
    /\ response.status = 500
    /\ response.coverLetterId = turn.active_letter.id
    /\ LetterById(cover_letters, turn.active_letter.id) = turn.active_letter

\* the drafts of a thread of a profile
DraftsOf(letters, profile_id, thread_id) ==
    {i \in 1..Len(letters) :
        /\ letters[i].profile_id = profile_id
        /\ letters[i].thread_id = normalize_thread_id(thread_id)}

\* C33: the active draft of a thread is the most recently created one: right
\* after a new draft is created for a profile and a thread,
\* latest_cover_letter_for_thread returns that draft, also beside an older
\* draft of the thread created at the same millisecond; and it returns
\* nothing exactly when the thread has no draft
NewestDraftIsActive ==
    [][(/\ requests' = requests + 1
        /\ turn'.op = "store_cover_letter")
       => /\ latest_cover_letter_for_thread(cover_letters', turn'.profile_id,
                                            turn'.thread_id).id = turn'.letter_id
          /\ \A profile_id \in DraftProfiles, thread_id \in DraftThreadIds :
                 (latest_cover_letter_for_thread(cover_letters', profile_id, thread_id)
                      = NoLetter)
                 <=> DraftsOf(cover_letters', profile_id, thread_id) = {}]_vars

\* the turn t reached the placeholder-fill branch with a message that holds
\* no key/value update for the keys of its draft
UnstructuredAtFill(t, keys) ==
    /\ t.active_letter # NoLetter
    /\ t.branch \notin {"pdf", "review", "job", "guard"}
    /\ keys # <<>>
    /\ parse_placeholder_updates(t.message, keys, FALSE) = <<>>

\* C34: when the active draft has exactly one outstanding placeholder key, a
\* message that reaches the placeholder-fill branch, holds no key/value
\* update and does not look like an adjustment request is substituted in
\* full for that placeholder, in place and without a model call; when the
\* message looks like an adjustment request, or two or more keys are
\* outstanding, the fill changes nothing and the turn goes to the next branch
WholeMessageFillsOnlyKey ==
    [][LET found == collect_unknown_placeholder_tokens(turn'.active_letter.text)
           updated == LetterById(cover_letters', turn'.active_letter.id)
           adjustment == looks_like_letter_adjustment(turn'.message)
       IN  (ChatStep /\ UnstructuredAtFill(turn', found.keys))
           => IF Len(found.keys) = 1 /\ ~adjustment
              THEN /\ turn'.branch = "fill"
                   /\ turn'.llm_calls = 0
                   /\ turn'.letter_id = turn'.active_letter.id
                   /\ Len(cover_letters') = Len(cover_letters)
                   /\ Contains(updated.text, strip(turn'.message))
                   /\ collect_unknown_placeholder_tokens(updated.text).keys = <<>>
                   /\ updated.created_at = turn'.active_letter.created_at
              ELSE /\ turn'.branch = (IF adjustment THEN "adjust" ELSE "draft")
                   /\ (turn'.llm_calls = 0 =>
                           /\ LetterById(cover_letters', turn'.active_letter.id)
                                  = turn'.active_letter)]_vars

\* a whole message was substituted for the only placeholder of a draft
WholeMessageSubstituted ==
    /\ ChatTurn
    /\ turn.branch = "fill"
    /\ Len(collect_unknown_placeholder_tokens(turn.active_letter.text).keys) = 1
    /\ parse_placeholder_updates(
           turn.message, collect_unknown_placeholder_tokens(turn.active_letter.text).keys,
           FALSE) = <<>>
    /\ Contains(LetterById(cover_letters, turn.letter_id).text, strip(turn.message))

\* C35: job descriptions are isolated per profile: for every profile id and
\* thread id a user can supply, also ones that contain "::",
\* latest_job_description_for_thread returns nothing or a record that was
\* stored by that profile for that thread
JobDescriptionsIsolated ==
    \A profile_id \in JobProfiles, thread_id \in JobThreadIds :
        LET record == latest_job_description_for_thread(job_descriptions, profile_id,
                                                        thread_id)
        IN  record # NoJob =>
                /\ record.profile_id = profile_id
                /\ record.thread_id = normalize_thread_id(thread_id)

\* the files and the drafts of the other workspaces are the same after the
\* step as before
OthersUntouched(profile_id) ==
    /\ SelectSeq(uploaded_files', LAMBDA f : f.profile_id # profile_id)
           = SelectSeq(uploaded_files, LAMBDA f : f.profile_id # profile_id)
    /\ SelectSeq(upload_store', LAMBDA f : f.profile_id # profile_id)
           = SelectSeq(upload_store, LAMBDA f : f.profile_id # profile_id)
    /\ SelectSeq(cover_letters', LAMBDA l : l.profile_id # profile_id)
           = SelectSeq(cover_letters, LAMBDA l : l.profile_id # profile_id)

\* the file or the draft of that id belongs to another workspace
FileOfAnother(profile_id, file_id) ==
    \/ \E i \in 1..Len(uploaded_files) :
           uploaded_files[i].id = file_id /\ uploaded_files[i].profile_id # profile_id
    \/ \E i \in 1..Len(upload_store) :
           upload_store[i].id = file_id /\ upload_store[i].profile_id # profile_id

LetterOfAnother(profile_id, letter_id) ==
    \E i \in 1..Len(cover_letters) :
        cover_letters[i].id = letter_id /\ cover_letters[i].profile_id # profile_id

\* C36: drafts and uploads are isolated per profile: no chat turn and no
\* endpoint returns, attaches, exports or changes a draft or a file of
\* another profile than the session's, and a request that names the draft
\* or the file of another profile is answered as not found, or the id is
\* ignored, and changes nothing
DraftsAndUploadsIsolated ==
    [][/\ turn'.op \in {"chat", "list_uploads", "get_upload", "delete_upload", "export"}
          => OthersUntouched(turn'.profile_id)
       /\ (requests' = requests + 1 /\ turn'.op = "chat")
          => /\ \A i \in 1..Len(response'.attachments) :
                    FileById(uploaded_files', response'.attachments[i]).profile_id
                        = turn'.profile_id
             /\ turn'.active_letter # NoLetter
                    => turn'.active_letter.profile_id = turn'.profile_id
             /\ response'.coverLetterId # ""
                    => LetterById(cover_letters', response'.coverLetterId).profile_id
                           = turn'.profile_id
       /\ (requests' = requests + 1 /\ turn'.op = "list_uploads")
          => \A i \in 1..Len(response'.files) :
                 FileById(uploaded_files', response'.files[i]).profile_id
                     = turn'.profile_id
       /\ (requests' = requests + 1 /\ turn'.op = "get_upload")
          => /\ response'.status = 200 => turn'.upload.profile_id = turn'.profile_id
             /\ FileOfAnother(turn'.profile_id, turn'.file_id)
                    => /\ response'.status = 404
                       /\ UNCHANGED <<uploaded_files, upload_store>>
       /\ (requests' = requests + 1 /\ turn'.op = "delete_upload")
          => (FileOfAnother(turn'.profile_id, turn'.file_id)
                  => /\ response'.status = 404
                     /\ UNCHANGED <<uploaded_files, upload_store>>)
       /\ (requests' = requests + 1 /\ turn'.op = "export")
          => /\ response'.pdf
                    => LetterById(cover_letters, turn'.letter_id).profile_id
                           = turn'.profile_id
             /\ LetterOfAnother(turn'.profile_id, turn'.letter_id)
                    => /\ response'.status = 404
                       /\ UNCHANGED cover_letters]_vars

\* a workspace asked for the file of another workspace that was only in the
\* database, and was refused
OtherWorkspaceFileRefused ==
    /\ turn.op = "get_upload"
    /\ response.status = 404
    /\ \E i \in 1..Len(upload_store) :
           upload_store[i].id = turn.file_id /\ upload_store[i].profile_id # turn.profile_id
    /\ uploaded_files = <<>>

\* the file is on record for the profile, in the cache or in the database
FileOnRecord(profile_id, file_id) ==
    \/ \E i \in 1..Len(uploaded_files) :
           uploaded_files[i].id = file_id /\ uploaded_files[i].profile_id = profile_id
    \/ \E i \in 1..Len(upload_store) :
           upload_store[i].id = file_id /\ upload_store[i].profile_id = profile_id

\* C37: with persistence enabled, an uploaded file is returned and listed
\* for its profile until it is deleted; deleting a file that is on record
\* for the profile, in the in-memory cache or only in the database (as after
\* a restart), succeeds and removes it from both; saving the same (profile,
\* file id) twice leaves one record; and a deleted file is in neither store
UploadLivesUntilDeleted ==
    [][mongo =>
       /\ (requests' = requests + 1 /\ turn'.op = "get_upload"
           /\ FileOnRecord(turn'.profile_id, turn'.file_id))
          => response'.status = 200 /\ turn'.upload.id = turn'.file_id
       /\ (requests' = requests + 1 /\ turn'.op = "list_uploads")
          => \A i \in 1..Len(upload_store) :
                 upload_store[i].profile_id = turn'.profile_id
                     => \E k \in 1..Len(response'.files) :
                            response'.files[k] = upload_store[i].id
       /\ (requests' = requests + 1 /\ turn'.op = "delete_upload"
           /\ FileOnRecord(turn'.profile_id, turn'.file_id))
          => /\ response'.status = 200
             /\ \A i \in 1..Len(uploaded_files') : uploaded_files'[i].id # turn'.file_id
             /\ \A i \in 1..Len(upload_store') : upload_store'[i].id # turn'.file_id
       /\ (requests' = requests + 1 /\ turn'.op = "save_upload")
          => /\ Len(upload_store') = Len(upload_store)
             /\ \A i, j \in 1..Len(upload_store') :
                    (/\ upload_store'[i].id = upload_store'[j].id
                     /\ upload_store'[i].profile_id = upload_store'[j].profile_id)
                    => i = j]_vars

\* the words the classifiers of the chat route look for
RequestVocabulary ==
    intent_keywords \cup {"please"} \cup cover_letter_terms \cup resume_terms
    \cup {"pdf"}

\* a posting longer than 250 characters whose only job signals are
\* "responsibilities" and "requirements" and that holds no drafting verb, no
\* cover-letter term, no resume term and no PDF phrase as a word
PostingWithRequirements(message) ==
    /\ Len(message) > 250
    /\ {term \in job_signals : Contains(lower(message), term)}
           = {"responsibilities", "requirements"}
    /\ \A word \in RequestVocabulary :
           Contains(collapse(lower(message)), word)
               => /\ word = "require"
                  /\ ~Contains(Replace(collapse(lower(message)), "requirements", ""),
                               word)

\* C38: a pasted job posting whose only recognised vocabulary is the job
\* signals "responsibilities" and "requirements" is classified as carrying
\* no request intent and is captured as the job description of the thread
\* in branch 3, and the language model is not called
RequirementsPostingCaptured ==
    [][(ChatStep /\ PostingWithRequirements(turn'.message))
       => /\ ~TurnFacts'.has_request_intent
          /\ turn'.branch = "job"
          /\ turn'.llm_calls = 0
          /\ latest_job_description_for_thread(job_descriptions', turn'.profile_id,
                                               turn'.thread_id).text
                 = Slice(collapse(turn'.message), 1, JOB_DESCRIPTION_MAX_LENGTH)]_vars

\* the code is an unexpired pending verification code or, with persistence
\* enabled, the id of a workspace with a session or a chat message on record
Verifiable(code) ==
    IF mongo
    THEN \/ /\ code \in DOMAIN verification_codes
            /\ ~verification_codes[code].used
            /\ verification_codes[code].expires_at > now
         \/ HasStoredData(code)
    ELSE /\ code \in DOMAIN pending_codes
         /\ pending_codes[code].expires_at > now

HeaderOf(text) ==
    LET lines == Split(text, {"\n"})
    IN  CHOOSE h \in {strip(lines[i]) : i \in 1..Len(lines)} \cup {""} :
            \/ \E i \in 1..Len(lines) :
                   /\ h = strip(lines[i]) /\ h # ""
                   /\ \A j \in 1..(i - 1) : strip(lines[j]) = ""
            \/ h = "" /\ \A i \in 1..Len(lines) : strip(lines[i]) = ""

\* C40: after any sequence of saves every stored draft has a non-blank text
\* without a [date] token in any letter case and a header_date equal to the
\* first non-blank line of its text, and an update in place leaves the id,
\* the profile_id and the created_at of the draft as they were
StoredDraftsWellFormed ==
    /\ [](\A i \in 1..Len(cover_letters) :
             /\ strip(cover_letters[i].text) # ""
             /\ ~Contains(lower(cover_letters[i].text), "[date]")
             /\ cover_letters[i].header_date = HeaderOf(cover_letters[i].text)
             /\ cover_letters[i].header_date # "")
    /\ [][(requests' = requests + 1 /\ turn'.op = "save_cover_letter")
          => /\ Len(cover_letters') = Len(cover_letters)
             /\ \A i \in 1..Len(cover_letters) :
                    /\ cover_letters'[i].id = cover_letters[i].id
                    /\ cover_letters'[i].profile_id = cover_letters[i].profile_id
                    /\ cover_letters'[i].created_at = cover_letters[i].created_at
                    /\ cover_letters[i].id # turn'.letter_id
                           => cover_letters'[i] = cover_letters[i]]_vars

\* a later save put a text with date tokens and a blank first line in place
\* of a stored draft
DatedTextSavedInPlace ==
    /\ turn.op = "save_cover_letter"
    /\ \E i \in 1..Len(cover_letters) :
           /\ cover_letters[i].id = turn.letter_id
           /\ cover_letters[i].updated_at > cover_letters[i].created_at
           /\ cover_letters[i].header_date = date_line
           /\ Contains(cover_letters[i].text, "Dear [Company Name] team, " \o date_line)

====
